---- MODULE Spec2Model ----
(***************************************************************************)
(* Model of unidecode-replace: search on the transliterated projection of  *)
(* a string, replacement on the spans of the original string.              *)
(*                                                                         *)
(* Text is a sequence of one-character strings; Python offsets are         *)
(* 0-based, so string[i:j] is PySlice(string, i, j).  Optional values are  *)
(* None (the empty tuple) or Some(v) (the 1-tuple).                        *)
(***************************************************************************)
EXTENDS Integers, Sequences, FiniteSets, TLC

\* ------------------------------------------------------------------ bounds
MaxLen == 3
MaxEmit == 4

\* ------------------------------------------------------- Python primitives
None == <<>>
Some(v) == <<v>>
IsNone(o) == o = <<>>
Val(o) == o[1]

Min2(a, b) == IF a <= b THEN a ELSE b
Max2(a, b) == IF a >= b THEN a ELSE b

\* normalisation of a slice bound of Python's s[i:j]
PyBound(n, i) == IF i < 0 THEN Max2(0, n + i) ELSE Min2(n, i)

\* Python's s[i:j]
PySlice(s, i, j) == SubSeq(s, PyBound(Len(s), i) + 1, PyBound(Len(s), j))

\* Python's s[i:]
PyTail(s, i) == SubSeq(s, PyBound(Len(s), i) + 1, Len(s))

RECURSIVE Concat(_)
Concat(ss) == IF ss = <<>> THEN <<>> ELSE Head(ss) \o Concat(Tail(ss))

\* str.lower() on one character; only ASCII capitals occur
lower_char(c) == CASE c = "A" -> "a" [] c = "B" -> "b" [] OTHER -> c

lower(s) == [i \in 1..Len(s) |-> lower_char(s[i])]

\* min() of a non-empty set of integers
MinOf(S) == CHOOSE x \in S : \A y \in S : x <= y

\* hay[i:i+len(needle)] == needle, i a 0-based offset
MatchesAt(hay, needle, i) ==
    /\ i >= 0
    /\ i + Len(needle) <= Len(hay)
    /\ SubSeq(hay, i + 1, i + Len(needle)) = needle

\* str.index(needle, start); -1 stands for ValueError
index(hay, needle, start) ==
    LET First(hits) == IF hits = {} THEN -1 ELSE MinOf(hits)
    IN  First({i \in (IF start < 0 THEN Max2(0, Len(hay) + start) ELSE start)..Len(hay) :
                 MatchesAt(hay, needle, i)})

\* ------------------------------------------------------- transliteration
\* Table of the transliteration collaborator as seen through _get_repl_str:
\* ASCII maps to itself, "W" expands to two characters, "V" to a capital
\* and a small letter, "E" to nothing, and "N" has no entry (None).
get_repl_str(c) ==
    CASE c = "W" -> Some(<<"a", "b">>)
      [] c = "V" -> Some(<<"B", "a">>)
      [] c = "E" -> Some(<<>>)
      [] c = "N" -> None
      [] OTHER -> Some(<<c>>)

\* _unidecode_repl_char for errors = "preserve" and errors = "ignore"
unidecode_repl_char(c, errors) ==
    LET Replica(repl) ==
            IF IsNone(repl)
            THEN (IF errors = "preserve" THEN <<c>> ELSE <<>>)
            ELSE Val(repl)
    IN  Replica(get_repl_str(c))

\* unidecode_repl(string, errors): the list of per-character chunks
unidecode_repl(s, errors) == [i \in 1..Len(s) |-> unidecode_repl_char(s[i], errors)]

\* unidecode.unidecode(string), errors = "ignore"
unidecode(s) == Concat(unidecode_repl(s, "ignore"))


\* ----------------------------------------------------- the index map (u2i)
RECURSIVE PrefixLen(_, _)
\* itertools.accumulate(len(chunk)), initial = 0: length of the first i chunks
PrefixLen(chunks, i) == IF i = 0 THEN 0 ELSE PrefixLen(chunks, i - 1) + Len(chunks[i])

RECURSIVE SortedSeq(_)
SortedSeq(S) ==
    IF S = {} THEN <<>> ELSE <<MinOf(S)>> \o SortedSeq(S \ {MinOf(S)})

\* an index map that has every projection offset as a key, the offsets
\* inside an expansion mapped to the character they belong to
build_u2i_every(chunks) ==
    [k \in 0..PrefixLen(chunks, Len(chunks)) |->
        CHOOSE i \in 0..Len(chunks) :
            /\ PrefixLen(chunks, i) <= k
            /\ \A j \in 0..Len(chunks) : PrefixLen(chunks, j) <= k => j <= i]

\* an index map in which the first pair of a key wins: a key reached by
\* several indexes maps to the smallest of them
build_u2i_first(chunks) ==
    [k \in {PrefixLen(chunks, i) : i \in 0..Len(chunks)} |->
        CHOOSE i \in 0..Len(chunks) :
            /\ PrefixLen(chunks, i) = k
            /\ \A j \in 0..Len(chunks) : PrefixLen(chunks, j) = k => j >= i]

\* dict(zip(accumulate(...), range(n + 1))): a later pair overwrites the
\* value of an equal key, so a key maps to the largest index reaching it
build_u2i(chunks) ==
    [k \in {PrefixLen(chunks, i) : i \in 0..Len(chunks)} |->
        CHOOSE i \in 0..Len(chunks) :
            /\ PrefixLen(chunks, i) = k
            /\ \A j \in 0..Len(chunks) : PrefixLen(chunks, j) = k => j <= i]

\* `key in u2i`; _NoUnidecodingDict.__contains__ is always True
HasKey(self, k) == IF self.unidecoded_search THEN k \in DOMAIN self.u2i ELSE TRUE

\* u2i[key] for a key that is present; _NoUnidecodingDict.__missing__
\* returns the key itself
U2I(self, k) == IF self.unidecoded_search THEN self.u2i[k] ELSE k

\* _get_unis: (u2i, uni_str, uni_str_lower) and the key order of u2i
get_unis(string, unidecoded_search, cs_needed, ci_needed) ==
    LET Unis(full, map) ==
            [u2i |-> map,
             keys |-> IF unidecoded_search THEN SortedSeq(DOMAIN map) ELSE <<>>,
             uni_str |-> IF cs_needed /\ unidecoded_search THEN Some(full) ELSE None,
             uni_str_lower |-> IF ci_needed THEN Some(lower(full)) ELSE None]
        From(chunks) ==
            Unis(IF unidecoded_search THEN Concat(chunks) ELSE string,
                 IF unidecoded_search THEN build_u2i(chunks) ELSE <<>>)
    IN  From(unidecode_repl(string, "preserve"))

\* ------------------------------------------------------------ SearchItem
NoIter == -1

\* SearchItem.uni_str: the text this item searches
item_uni_str(self, it) ==
    IF it.case_sensitive
    THEN (IF self.unidecoded_search THEN Val(self.uni_str) ELSE self.string)
    ELSE Val(self.uni_str_lower)

\* SearchItem.reset_search
reset_search(self, it) ==
    [it EXCEPT !.pos = -1, !.iter = IF self.unidecoded_search THEN 0 ELSE NoIter]

\* pos_is_good of get_next_pos, evaluated at cursor p (p is a key)
pos_is_good(self, p, min_pos, min_ipos) ==
    /\ IsNone(min_pos) \/ p >= Max2(0, Val(min_pos))
    /\ IsNone(min_ipos) \/ U2I(self, p) >= Max2(0, Val(min_ipos))
    /\ U2I(self, p) >= self.pos

\* SearchItem.get_next_pos; result: the item, the returned position and
\* the exception raised by a failed u2i lookup ("" when none)
get_next_pos(self, it, min_pos, min_ipos) ==
    LET hasArg == ~IsNone(min_pos) \/ ~IsNone(min_ipos)
        Reset == [item |-> reset_search(self, it), ret |-> -1, err |-> ""]
        \* the key the iterator stops at: beyond the window, or good
        StopAt(j) ==
            IF U2I(self, self.keys[j]) >= self.endpos THEN Reset
            ELSE [item |-> [it EXCEPT !.pos = self.keys[j], !.iter = j],
                  ret |-> self.keys[j], err |-> ""]
        Iterate(stop) == IF stop = {} THEN Reset ELSE StopAt(MinOf(stop))
    IN  IF /\ hasArg
           /\ IsNone(min_pos) \/ it.pos >= Max2(0, Val(min_pos))
           /\ ~HasKey(self, it.pos)
        THEN [item |-> it, ret |-> -1, err |-> "KeyError"]
        ELSE IF hasArg /\ pos_is_good(self, it.pos, min_pos, min_ipos)
        THEN (IF U2I(self, it.pos) < self.endpos
              THEN [item |-> it, ret |-> it.pos, err |-> ""]
              ELSE Reset)
        ELSE IF it.iter = NoIter
        THEN (IF it.pos + 1 >= Len(self.string)
              THEN Reset
              ELSE [item |-> [it EXCEPT !.pos = it.pos + 1],
                    ret |-> it.pos + 1, err |-> ""])
        ELSE Iterate({j \in (it.iter + 1)..Len(self.keys) :
                        \/ U2I(self, self.keys[j]) >= self.endpos
                        \/ pos_is_good(self, self.keys[j], min_pos, min_ipos)})

\* SearchItem.chunk_ok
chunk_ok(self, start, end) == HasKey(self, start) /\ HasKey(self, end)

\* an alternative that starts with LA is the lookahead (?=...): it matches
\* where the rest of the alternative occurs and consumes nothing
LA == "(?="

is_lookahead(alt) == alt # <<>> /\ Head(alt) = LA

alt_body(alt) == IF is_lookahead(alt) THEN Tail(alt) ELSE alt

\* the length of a match of the alternative
alt_width(alt) == IF is_lookahead(alt) THEN 0 ELSE Len(alt)

\* a check of emptiness that rejects nothing
matches_empty_never(alts) == FALSE

\* `if not one_search` for the one text of a literal term;
\* re.match(f"(?:{one_search})$", ""): the pattern matches the empty text
matches_empty(alts) == \E k \in 1..Len(alts) : alt_body(alts[k]) = <<>>

\* re.Pattern.search(hay, pos) for an alternation of literals: leftmost
\* start, first alternative that matches there (recorded in the match, it
\* decides which groups took part); a negative pos counts as 0
alt_matches(hay, alt, ic, i) ==
    IF ic THEN MatchesAt(lower(hay), lower(alt_body(alt)), i)
    ELSE MatchesAt(hay, alt_body(alt), i)

re_search(hay, alts, ic, pos) ==
    LET Alt(i, k) == Some([start |-> i, end |-> i + alt_width(alts[k]), alt |-> k])
        At(i) == Alt(i, CHOOSE x \in 1..Len(alts) :
                          /\ alt_matches(hay, alts[x], ic, i)
                          /\ \A y \in 1..(x - 1) : ~alt_matches(hay, alts[y], ic, i))
        First(hits) == IF hits = {} THEN None ELSE At(MinOf(hits))
    IN  First({i \in Max2(0, pos)..Len(hay) :
                 \E k \in 1..Len(alts) : alt_matches(hay, alts[k], ic, i)})

\* uni_str.index(search_str, pos) / self.search.search(uni_str, pos): the
\* span of the hit in the projection, None when there is none
find(hay, it, lpos) ==
    LET Hit(p) == IF p < 0 THEN None
                  ELSE Some([start |-> p, end |-> p + Len(it.search[1])])
    IN  IF it.kind = "str" THEN Hit(index(hay, it.search[1], lpos))
        ELSE re_search(hay, it.search, it.ic, lpos)

\* first statement of next(): pos = self.pos if self.pos >= 0 else
\* self.get_next_pos()
next_entry(self, it) ==
    LET Entered(r) == [item |-> r.item, lpos |-> r.ret]
    IN  IF it.pos >= 0
        THEN [item |-> it, lpos |-> it.pos]
        ELSE Entered(get_next_pos(self, it, None, None))

\* one pass of the `while True` of SearchItemStr.next / SearchItemRegex.next
\* with local variable pos = lpos; done tells whether next() returned
next_iter(self, it, lpos) ==
    LET Miss == [item |-> IF it.kind = "str" THEN reset_search(self, it)
                          ELSE [it EXCEPT !.m = None],
                 lpos |-> lpos, done |-> TRUE, ret |-> -1]
        \* pos = self.get_next_pos(min_pos=pos + 1); if pos < 0: return -1
        Moved(r2) == [item |-> r2.item, lpos |-> r2.ret, done |-> r2.ret < 0,
                      ret |-> r2.ret]
        \* the test of the hit, r1 the call get_next_pos(min_pos=pos)
        Tested(hit, r1) ==
            IF hit.start = r1.ret /\ chunk_ok(self, hit.start, hit.end)
            THEN [item |-> IF it.kind = "str" THEN r1.item
                           ELSE [r1.item EXCEPT !.m = Some(hit)],
                  lpos |-> hit.start, done |-> TRUE, ret |-> hit.start]
            ELSE Moved(get_next_pos(self, r1.item, Some(hit.start + 1), None))
        Searched(found) ==
            IF IsNone(found) THEN Miss
            ELSE Tested(Val(found),
                        get_next_pos(self, it, Some(Val(found).start), None))
    IN  Searched(find(item_uni_str(self, it), it, lpos))

\* projection offsets of the pending match of an item
uni_span(it) ==
    IF it.kind = "str" THEN <<it.pos, it.pos + Len(it.search[1])>>
    ELSE IF IsNone(it.m) THEN <<-1, -1>>
    ELSE <<Val(it.m).start, Val(it.m).end>>

\* UnidecodeReMatch.start / UnidecodeReMatch.end of group 0
match_start(self, m) == IF m.start < 0 THEN -1 ELSE U2I(self, m.start)

match_end(self, m) == IF m.end < 0 THEN -1 ELSE U2I(self, m.end)

\* SearchItemStr.get_start_end / SearchItemRegex.get_start_end
get_start_end(self, it) ==
    IF it.kind = "str"
    THEN (IF HasKey(self, it.pos) /\ HasKey(self, it.pos + Len(it.search[1]))
          THEN <<U2I(self, it.pos), U2I(self, it.pos + Len(it.search[1]))>>
          ELSE <<-1, -1>>)
    ELSE (IF IsNone(it.m) THEN <<-1, -1>>
          ELSE <<match_start(self, Val(it.m)), match_end(self, Val(it.m))>>)

\* UnidecodeReMatch.group(0): the matched text of the original string
match_group0(self, m) ==
    LET Text(s, e) == IF s >= 0 /\ e >= 0 THEN Some(PySlice(self.string, s, e)) ELSE None
    IN  Text(match_start(self, m), match_end(self, m))

\* self.original.start(group) / self.original.end(group): the offsets of
\* group g in the projection, -1 for a group that took no part in the
\* match; group 0 is the whole match
original_start(it, m, g) ==
    IF g = 0 THEN m.start
    ELSE IF it.groups[g].alt = m.alt THEN m.start + it.groups[g].lo ELSE -1

original_end(it, m, g) ==
    IF g = 0 THEN m.end
    ELSE IF it.groups[g].alt = m.alt THEN m.start + it.groups[g].hi ELSE -1

\* `-1 if u < 0 else u2i[u]`: the original offset, or the KeyError of the
\* lookup of an offset that is not a key
rebase(self, u) ==
    [err |-> IF u >= 0 /\ ~HasKey(self, u) THEN "KeyError" ELSE "",
     val |-> IF u >= 0 /\ HasKey(self, u) THEN U2I(self, u) ELSE -1]

\* UnidecodeReMatch.start(group) / UnidecodeReMatch.end(group)
group_start(self, it, m, g) == rebase(self, original_start(it, m, g))

group_end(self, it, m, g) == rebase(self, original_end(it, m, g))

\* UnidecodeReMatch.group(g) for one group: the text of the original
\* string, None for a group that took no part
group(self, it, m, g) ==
    LET Text(s, e) ==
            [err |-> IF s.err # "" THEN s.err ELSE e.err,
             val |-> IF s.val >= 0 /\ e.val >= 0
                     THEN Some(PySlice(self.string, s.val, e.val)) ELSE None]
    IN  Text(group_start(self, it, m, g), group_end(self, it, m, g))

\* UnidecodeReMatch.groups()
groups(self, it, m) ==
    [err |-> IF \E g \in 1..Len(it.groups) : group(self, it, m, g).err # ""
             THEN "KeyError" ELSE "",
     vals |-> [g \in 1..Len(it.groups) |-> group(self, it, m, g).val]]

\* the numbers of the named groups, in the order of groupdict()
named_groups(it) == SortedSeq({g \in 1..Len(it.groups) : it.groups[g].name # ""})

\* UnidecodeReMatch.groupdict(): (name, value) pairs
groupdict(self, it, m) ==
    [k \in 1..Len(named_groups(it)) |->
        [name |-> it.groups[named_groups(it)[k]].name,
         value |-> group(self, it, m, named_groups(it)[k]).val]]

\* _dot_re(s, name): a group of len(s) dots, `()??` for None (len is None)
dot_re(s, name) ==
    [len |-> IF IsNone(s) THEN None ELSE Some(Len(Val(s))), name |-> name]

\* _nnstr
nnstr(s) == IF IsNone(s) THEN <<>> ELSE Val(s)

RECURSIVE fake_regex(_, _, _, _)
\* the two loops of _get_fake_match from group index gr_idx (0-based) and
\* name number k on: every name is given to the first group not yet passed
\* whose value equals the value of the name
fake_regex(vals, dict, gr_idx, k) ==
    IF gr_idx >= Len(vals) THEN <<>>
    ELSE IF k <= Len(dict) /\ dict[k].value = vals[gr_idx + 1]
    THEN <<dot_re(vals[gr_idx + 1], dict[k].name)>>
         \o fake_regex(vals, dict, gr_idx + 1, k + 1)
    ELSE <<dot_re(vals[gr_idx + 1], "")>> \o fake_regex(vals, dict, gr_idx + 1, k)

\* the character `.` matches: everything but the line feed
LF == "LF"

dot_matches(c) == c # LF

RECURSIVE fake_groups(_, _, _)
\* re.match(regex + "$", string) from offset at of string on: the values of
\* the groups of the synthetic pattern, or <<"BUG">> when it cannot match
fake_groups(regex, string, at) ==
    LET Then(value, n, rest) ==
            IF rest = <<"BUG">> THEN rest ELSE <<value>> \o rest
        Dots(n) ==
            IF at + n <= Len(string) /\ \A i \in (at + 1)..(at + n) : dot_matches(string[i])
            THEN Then(Some(SubSeq(string, at + 1, at + n)), n,
                      fake_groups(Tail(regex), string, at + n))
            ELSE <<"BUG">>
    IN  IF regex = <<>>
        THEN (IF at = Len(string) \/ (at = Len(string) - 1 /\ string[Len(string)] = LF)
              THEN <<>> ELSE <<"BUG">>)
        ELSE IF IsNone(Head(regex).len)
        THEN Then(None, 0, fake_groups(Tail(regex), string, at))
        ELSE Dots(Val(Head(regex).len))

\* UnidecodeReMatch._get_fake_match: the synthetic pattern built from the
\* values of groups() and groupdict(), matched on the concatenated values
get_fake_match(self, it, m) ==
    LET Matched(regex, found) ==
            [err |-> IF found = <<"BUG">> THEN "RuntimeError" ELSE "",
             regex |-> regex,
             vals |-> IF found = <<"BUG">> THEN <<>> ELSE found]
        Built(regex, string) == Matched(regex, fake_groups(regex, string, 0))
        From(vals, dict) ==
            Built(fake_regex(vals, dict, 0, 1),
                  Concat([g \in 1..Len(vals) |-> nnstr(vals[g])]))
    IN  IF groups(self, it, m).err # ""
        THEN [err |-> groups(self, it, m).err, regex |-> <<>>, vals |-> <<>>]
        ELSE From(groups(self, it, m).vals, groupdict(self, it, m))

\* the elements of a template that refer to a group: "%1", "%2", "%3" stand
\* for \1, \2, \3 and "%x", "%y" for \g<x>, \g<y>
ref_number(el) ==
    CASE el = "%1" -> 1 [] el = "%2" -> 2 [] el = "%3" -> 3 [] OTHER -> 0

ref_name(el) == CASE el = "%x" -> "x" [] el = "%y" -> "y" [] OTHER -> ""

\* re.Match.expand(template) on a match whose groups have the values vals
\* and whose pattern is regex: a reference to a group that took no part
\* expands to nothing
native_expand(regex, vals, template) ==
    LET Named(name) == CHOOSE g \in 1..Len(regex) : regex[g].name = name
        Part(el) ==
            IF ref_number(el) > 0 THEN nnstr(vals[ref_number(el)])
            ELSE IF ref_name(el) # "" THEN nnstr(vals[Named(ref_name(el))])
            ELSE <<el>>
    IN  Concat([i \in 1..Len(template) |-> Part(template[i])])

\* UnidecodeReMatch.expand
expand(self, it, m, template) ==
    LET Expanded(fake) ==
            [err |-> fake.err,
             text |-> IF fake.err # "" THEN <<>>
                      ELSE native_expand(fake.regex, fake.vals, template)]
    IN  Expanded(get_fake_match(self, it, m))

\* the exception get_replace raises, "" when it returns
get_replace_err(self, it) ==
    IF it.kind = "re" /\ it.sub.kind = "str"
    THEN expand(self, it, Val(it.m), it.sub.text).err
    ELSE ""

\* the callable built by unidecode_wrap, applied to the text it extracts
wrap_sub(prefix, text, suffix) == prefix \o text \o suffix

\* a callable that is handed the text of the projection
get_replace_projection(self, it) ==
    IF it.sub.kind = "str" THEN it.sub.text
    ELSE wrap_sub(it.sub.prefix,
                  PySlice(item_uni_str(self, it), uni_span(it)[1], uni_span(it)[2]),
                  it.sub.suffix)

\* a callable of a literal term that is handed the lower-cased text
get_replace_lowered(self, it) ==
    LET Span(se) == PySlice(self.string, se[1], se[2])
        Group(g) == IF IsNone(g) THEN <<>> ELSE Val(g)
    IN  IF it.sub.kind = "str"
        THEN (IF it.kind = "str" THEN it.sub.text ELSE expand(self, it, Val(it.m), it.sub.text).text)
        ELSE wrap_sub(it.sub.prefix,
                      IF it.kind = "str" THEN lower(Span(get_start_end(self, it)))
                      ELSE Group(match_group0(self, Val(it.m))),
                      it.sub.suffix)

\* SearchItemStr.get_replace / SearchItemRegex.get_replace
get_replace(self, it) ==
    LET Span(se) == PySlice(self.string, se[1], se[2])
        Group(g) == IF IsNone(g) THEN <<>> ELSE Val(g)
    IN  IF it.sub.kind = "str"
        THEN (IF it.kind = "str" THEN it.sub.text ELSE expand(self, it, Val(it.m), it.sub.text).text)
        ELSE wrap_sub(it.sub.prefix,
                      IF it.kind = "str" THEN Span(get_start_end(self, it))
                      ELSE Group(match_group0(self, Val(it.m))),
                      it.sub.suffix)

\* ------------------------------------------------------- UnidecodeReplace
\* a case sensitivity that every item takes from the call
case_sensitive_of_call(a, as_re, ic) == a.str_case_sensitive

\* SearchItemStr.case_sensitive / SearchItemRegex.case_sensitive: a literal
\* item takes it from the call, a pattern item from its own flags
case_sensitive_of(a, as_re, ic) == IF as_re THEN ~ic ELSE a.str_case_sensitive

\* flags that every pattern item takes from the call
flags_of_call(a, one_search) == a.re_flags_I

\* re.I among the flags of the pattern of an item: a compiled argument
\* keeps its own flags, a string compiled by get_search_item gets re_flags
flags_of(a, one_search) ==
    IF one_search.kind = "re" THEN one_search.ic ELSE (a.re_search /\ a.re_flags_I)

\* a pattern source that is compiled as it is given
pattern_source_as_is(a, alts) == alts

\* SearchItemRegex.__init__: the source of the pattern, compiled argument or
\* string alike, is transliterated when the search is
pattern_source(a, alts) ==
    IF a.unidecoded_search THEN [k \in 1..Len(alts) |-> unidecode(alts[k])] ELSE alts

\* the capture groups of the compiled pattern of an item: transliterating
\* the source moves every group boundary to the end of the expansions of
\* the characters before it
pattern_groups(a, one_search) ==
    LET Moved(g, chunks) == [g EXCEPT !.lo = PrefixLen(chunks, g.lo),
                                      !.hi = PrefixLen(chunks, g.hi)]
    IN  [i \in 1..Len(one_search.groups) |->
            IF a.unidecoded_search
            THEN Moved(one_search.groups[i],
                       unidecode_repl(one_search.alts[one_search.groups[i].alt], "ignore"))
            ELSE one_search.groups[i]]

\* a check of the sub that accepts every value
sub_type_ok_any(one_sub) == TRUE

\* SearchItem.__init__: `isinstance(one_sub, str) or callable(one_sub)`
sub_type_ok(one_sub) == one_sub.kind # "other"

\* get_search_item + SearchItemStr.__init__ / SearchItemRegex.__init__:
\* the normalised search of one term, "" or the exception raised
make_item(a, one_search, one_sub) ==
    LET as_re == one_search.kind = "re" \/ a.re_search
        ic == flags_of(a, one_search)
        Made(src) ==
            [err |-> IF matches_empty(src) THEN "ValueError"
                     ELSE IF ~sub_type_ok(one_sub) THEN "TypeError"
                     ELSE "",
             item |-> [kind |-> IF as_re THEN "re" ELSE "str",
                       search |-> src,
                       groups |-> pattern_groups(a, one_search),
                       ic |-> as_re /\ ic,
                       case_sensitive |-> case_sensitive_of(a, as_re, ic),
                       sub |-> one_sub,
                       pos |-> -1,
                       iter |-> NoIter,
                       m |-> None]]
        Normal(lowered) == IF a.unidecoded_search THEN unidecode(lowered) ELSE lowered
    IN  IF one_search.kind = "other"
        THEN [err |-> "TypeError", item |-> <<>>]
        ELSE IF as_re
        THEN Made(pattern_source(a, one_search.alts))
        ELSE Made(<<Normal(IF a.str_case_sensitive THEN one_search.alts[1]
                           ELSE lower(one_search.alts[1]))>>)

\* a pairing that gives every search the first sub
sub_for_first(a, i) == a.sub[1]

\* the sub _get_search_items pairs with search i: zip(search, sub) when the
\* lists are of equal length, sub[0] for every search otherwise
sub_for(a, i) == IF Len(a.sub) = Len(a.search) THEN a.sub[i] ELSE a.sub[1]

\* a check that accepts any number of subs but none
subs_match_some(a) == Len(a.sub) >= 1

\* `len(search) == len(sub)` / `elif len(sub) == 1` of _get_search_items
subs_match(a) == Len(a.sub) = Len(a.search) \/ Len(a.sub) = 1

\* _get_search_items: pairs every search with its sub (one sub is shared)
get_search_items(a) ==
    LET n == Len(a.search)
        Items(made) ==
            [err |-> IF \E i \in 1..n : made[i].err # ""
                     THEN made[MinOf({i \in 1..n : made[i].err # ""})].err
                     ELSE "",
             items |-> IF \E i \in 1..n : made[i].err # "" THEN <<>>
                       ELSE [i \in 1..n |-> made[i].item]]
    IN  IF n = 0 THEN [err |-> "ValueError", items |-> <<>>]
        ELSE IF ~subs_match(a)
        THEN [err |-> "ValueError", items |-> <<>>]
        ELSE Items([i \in 1..n |->
                      make_item(a, a.search[i], sub_for(a, i))])

\* UnidecodeReplace.__init__ up to the reset_search loop of
\* _init_search_items
construct(a) ==
    LET Object(unis) ==
            [string |-> a.string,
             allow_overlaps |-> a.allow_overlaps,
             count |-> a.count,
             count_is_int |-> a.count_is_int,
             pos |-> IF IsNone(a.pos) THEN 0 ELSE Val(a.pos),
             endpos |-> IF IsNone(a.endpos) THEN Len(a.string)
                        ELSE Min2(Len(a.string), Val(a.endpos)),
             unidecoded_search |-> a.unidecoded_search,
             str_case_sensitive |-> a.str_case_sensitive,
             u2i |-> unis.u2i, keys |-> unis.keys,
             uni_str |-> unis.uni_str, uni_str_lower |-> unis.uni_str_lower]
        Built(si, obj) ==
            [err |-> si.err,
             self |-> obj,
             items |-> [i \in 1..Len(si.items) |-> reset_search(obj, si.items[i])]]
        With(si) ==
            Built(si, Object(get_unis(a.string, a.unidecoded_search,
                                      \E i \in 1..Len(si.items) : si.items[i].case_sensitive,
                                      \E i \in 1..Len(si.items) : ~si.items[i].case_sensitive)))
    IN  With(get_search_items(a))

Frame0 == [result |-> <<>>, last_pos |-> 0, matches |-> 0, si_idx |-> 0,
           cur |-> 0, lpos |-> 0, ret |-> "prime", prime_idx |-> 1,
           kept |-> <<>>, state |-> "INIT", err |-> ""]

\* the program state in which the call with arguments a starts priming its
\* items: the instance, the SearchItem objects by declaration index, the
\* list self.search_items (declaration indexes), the control point, the
\* locals of __init__ / run / next, and the replacements emitted so far
InitState(a) ==
    LET Start(c, ok) ==
            [self |-> c.self,
             items |-> IF ok THEN c.items ELSE <<>>,
             search_items |-> IF ok THEN [i \in 1..Len(c.items) |-> i] ELSE <<>>,
             pc |-> IF ok THEN "prime" ELSE "error",
             fr |-> [Frame0 EXCEPT !.err = c.err,
                                   !.state = IF ok THEN "INIT" ELSE "ERROR"],
             emitted |-> <<>>]
        Constructed(c) == Start(c, c.err = "")
    IN  Constructed(construct(a))

\* ----------------------------------------------------------------- run()
\* the last list position holding the smallest cursor
min_item_last(its, active) ==
    CHOOSE i \in 1..Len(active) :
        /\ \A j \in 1..Len(active) : its[active[i]].pos <= its[active[j]].pos
        /\ \A j \in (i + 1)..Len(active) : its[active[j]].pos > its[active[i]].pos

\* min(enumerate(self.search_items), key=lambda item: item[1].pos): the
\* first list position (1-based here) holding the smallest cursor
min_item(its, active) ==
    CHOOSE i \in 1..Len(active) :
        /\ \A j \in 1..Len(active) : its[active[i]].pos <= its[active[j]].pos
        /\ \A j \in 1..(i - 1) : its[active[j]].pos > its[active[i]].pos

RemoveAt(seq, i) == SubSeq(seq, 1, i - 1) \o SubSeq(seq, i + 1, Len(seq))

RECURSIVE skip_from(_, _, _, _, _)
\* the list comprehension of _skip_overlaps from list position i on: every
\* item gets get_next_pos(min_ipos=last_pos); a KeyError ends the call
skip_from(obj, its, active, last_pos, i) ==
    LET Rest(r, rest) ==
            [items |-> rest.items,
             remove |-> IF r.ret = -1 THEN rest.remove \cup {i} ELSE rest.remove,
             err |-> rest.err]
        Moved(r) ==
            IF r.err # "" THEN [items |-> its, remove |-> {}, err |-> r.err]
            ELSE Rest(r, skip_from(obj, [its EXCEPT ![active[i]] = r.item],
                                   active, last_pos, i + 1))
    IN  IF i > Len(active) THEN [items |-> its, remove |-> {}, err |-> ""]
        ELSE Moved(get_next_pos(obj, its[active[i]], None, Some(last_pos)))

\* the list without the positions in remove
KeepPositions(active, remove) ==
    LET Kept(keepIdx) == [k \in 1..Len(keepIdx) |-> active[keepIdx[k]]]
    IN  Kept(SortedSeq({i \in 1..Len(active) : i \notin remove}))

\* UnidecodeReplace._skip_overlaps
skip_overlaps(obj, its, active, last_pos) ==
    LET Skipped(r) ==
            [items |-> r.items, active |-> KeepPositions(active, r.remove), err |-> r.err]
    IN  Skipped(skip_from(obj, its, active, last_pos, 1))

\* a check of count that accepts every value
count_ok_any(obj) == TRUE

\* the check of count at the top of run()
count_ok(obj) == IF IsNone(obj.count) THEN TRUE ELSE obj.count_is_int /\ Val(obj.count) > 0

\* the selection made at the top of one pass of the while loop of run():
\* the declaration index of the chosen item and its (pos, next_pos)
Chosen(s) == s.search_items[min_item(s.items, s.search_items)]

ChosenSpan(s) == get_start_end(s.self, s.items[Chosen(s)])

\* a pass that emits whatever the start of its candidate is
Emits_always(s) == TRUE

\* `if pos >= last_pos or self.allow_overlaps`
Emits(s) == IF s.self.allow_overlaps THEN TRUE ELSE ChosenSpan(s)[1] >= s.fr.last_pos

\* `if last_pos > pos: pos = last_pos`
EmitPos(s, span) == IF s.fr.last_pos > span[1] THEN s.fr.last_pos ELSE span[1]

\* a limit that lets one more replacement through
LimitHit_late(s) ==
    IF IsNone(s.self.count) THEN FALSE ELSE s.fr.matches + 1 > Val(s.self.count)

\* `if count is not None: matches += 1; if matches >= count: break`
LimitHit(s) ==
    IF IsNone(s.self.count) THEN FALSE ELSE s.fr.matches + 1 >= Val(s.self.count)

\* the record of the replacement emitted for item id with original span
\* (pos, next_pos) and replacement text repl: term, span of the match in the
\* original string, offset the replacement is written at, span of the match
\* in the projection, replacement text, length of result afterwards
emission(s, id, span, repl) ==
    [term |-> id, start |-> span[1], end |-> span[2], at |-> EmitPos(s, span),
     ustart |-> uni_span(s.items[id])[1], uend |-> uni_span(s.items[id])[2],
     repl |-> repl,
     out |-> Len(s.fr.result)
             + Len(PySlice(s.self.string, s.fr.last_pos, EmitPos(s, span)))
             + Len(repl)]

item_emission(s, id) ==
    emission(s, id, get_start_end(s.self, s.items[id]), get_replace(s.self, s.items[id]))

\* the replacement the pass made in state s emits
Emission(s) == item_emission(s, Chosen(s))

\* result, last_pos and matches after the emitting statements of a pass
\* that emits e
EmitFrame(s, e) ==
    [s.fr EXCEPT !.result = s.fr.result
                            \o PySlice(s.self.string, s.fr.last_pos, e.at)
                            \o e.repl,
                 !.last_pos = e.end,
                 !.matches = IF IsNone(s.self.count) THEN s.fr.matches
                             ELSE s.fr.matches + 1]

\* the list position picked by min() in state s (si_idx)
picked(s) == min_item(s.items, s.search_items)

\* the call search_item.next() made by run() on item id once the frame is
\* f (si_idx set), the items are its and the active list is active: the
\* first statement of next()
call_next(s, its, active, f, id) ==
    LET Entered(e) ==
            [s EXCEPT !.items = [its EXCEPT ![id] = e.item],
                      !.search_items = active,
                      !.fr = [f EXCEPT !.cur = id, !.lpos = e.lpos, !.ret = "run"],
                      !.pc = "next"]
    IN  Entered(next_entry(s.self, its[id]))

raise(s, f, err) == [s EXCEPT !.pc = "error", !.fr = [f EXCEPT !.err = err, !.state = "ERROR"]]

\* _init_search_items: the list comprehension calls next() on the next item
prime_next(s) ==
    LET Entered(e) ==
            [s EXCEPT !.items = [s.items EXCEPT ![s.fr.prime_idx] = e.item],
                      !.fr = [s.fr EXCEPT !.cur = s.fr.prime_idx, !.lpos = e.lpos,
                                          !.ret = "prime"],
                      !.pc = "next"]
    IN  Entered(next_entry(s.self, s.items[s.fr.prime_idx]))

\* end of __init__, then the start of run(): the count check and the
\* initialisation of result, last_pos and matches
start_run(s) ==
    IF count_ok(s.self)
    THEN [s EXCEPT !.search_items = s.fr.kept,
                   !.pc = "scan",
                   !.fr = [s.fr EXCEPT !.result = <<>>, !.last_pos = 0, !.matches = 0,
                                       !.state = "SCANNING"]]
    ELSE raise([s EXCEPT !.search_items = s.fr.kept], s.fr, "ValueError")

\* the pass of the loop of next() made in state s
NextIter(s) == next_iter(s.self, s.items[s.fr.cur], s.fr.lpos)

\* next(): one pass n of its loop that does not return
next_retry(s, n) ==
    [s EXCEPT !.items = [s.items EXCEPT ![s.fr.cur] = n.item],
              !.fr = [s.fr EXCEPT !.lpos = n.lpos]]

\* next() returns to the list comprehension of _init_search_items, which
\* keeps the item when the value is >= 0
next_return_prime(s, n) ==
    [s EXCEPT !.items = [s.items EXCEPT ![s.fr.cur] = n.item],
              !.fr = [s.fr EXCEPT !.prime_idx = s.fr.prime_idx + 1,
                                  !.kept = IF n.ret >= 0
                                           THEN Append(s.fr.kept, s.fr.cur)
                                           ELSE s.fr.kept],
              !.pc = "prime"]

\* next() returns to run(): `if search_item.next() < 0: del
\* self.search_items[si_idx]`
next_return_run(s, n) ==
    IF n.ret >= 0
    THEN [s EXCEPT !.items = [s.items EXCEPT ![s.fr.cur] = n.item], !.pc = "scan"]
    ELSE IF s.fr.si_idx <= Len(s.search_items)
    THEN [s EXCEPT !.items = [s.items EXCEPT ![s.fr.cur] = n.item],
                   !.search_items = RemoveAt(s.search_items, s.fr.si_idx),
                   !.pc = "scan"]
    ELSE raise([s EXCEPT !.items = [s.items EXCEPT ![s.fr.cur] = n.item]],
               s.fr, "IndexError")

\* an end of the loop that returns result without the rest of the string
finish_no_flush(s) == [s EXCEPT !.fr = [s.fr EXCEPT !.state = "COMPLETE"], !.pc = "done"]

\* the while loop of run() ends: the rest of the string is appended
finish(s) ==
    [s EXCEPT !.fr = [s.fr EXCEPT !.result = s.fr.result
                                             \o PyTail(s.self.string, s.fr.last_pos),
                                  !.state = "COMPLETE"],
              !.pc = "done"]

\* one pass of the loop whose candidate starts before last_pos while
\* overlaps are not allowed: nothing is emitted, the item searches again
stale(s, id) ==
    call_next(s, s.items, s.search_items, [s.fr EXCEPT !.si_idx = picked(s)], id)

\* an emitting pass (emission e, frame f after it) that reaches count:
\* break, then the final append
emit_limit(s, e, f) ==
    [s EXCEPT !.fr = [f EXCEPT !.result = f.result \o PyTail(s.self.string, f.last_pos),
                               !.state = "LIMIT_REACHED"],
              !.emitted = Append(s.emitted, e),
              !.pc = "done"]

\* an emitting pass with allow_overlaps: the chosen item moves its cursor
\* by get_next_pos(min_ipos=pos + 1) (result r), then searches again
emit_overlap(s, e, f, r) ==
    IF r.err # "" THEN raise([s EXCEPT !.emitted = Append(s.emitted, e)], f, r.err)
    ELSE call_next([s EXCEPT !.emitted = Append(s.emitted, e)],
                   [s.items EXCEPT ![e.term] = r.item], s.search_items, f, e.term)

\* an emitting pass that replaces in place: the string searched from now
\* on is the output written so far followed by the rest of the original
emit_skip_in_place(s, e, f, r) ==
    IF r.err # "" THEN raise([s EXCEPT !.emitted = Append(s.emitted, e)], f, r.err)
    ELSE call_next([s EXCEPT !.emitted = Append(s.emitted, e),
                             !.self = [s.self EXCEPT !.string =
                                          f.result \o PyTail(s.self.string, f.last_pos)]],
                   r.items, r.active, f, e.term)

\* an emitting pass without allow_overlaps: _skip_overlaps (result r)
\* repositions or removes every active item, then the chosen item searches
\* again
emit_skip(s, e, f, r) ==
    IF r.err # "" THEN raise([s EXCEPT !.emitted = Append(s.emitted, e)], f, r.err)
    ELSE call_next([s EXCEPT !.emitted = Append(s.emitted, e)],
                   r.items, r.active, f, e.term)

\* the pass of the loop of run() made in state s that emits e
emit(s, e, f) ==
    IF LimitHit(s) THEN emit_limit(s, e, f)
    ELSE IF s.self.allow_overlaps
    THEN emit_overlap(s, e, f,
                      get_next_pos(s.self, s.items[e.term], None, Some(e.at + 1)))
    ELSE emit_skip(s, e, f, skip_overlaps(s.self, s.items, s.search_items, f.last_pos))

emit_pass(s, e) == emit(s, e, [EmitFrame(s, e) EXCEPT !.si_idx = picked(s)])

\* a pass whose call of get_replace raises err: run() ends with the
\* exception, nothing is written
emit_raise(s, err) == raise(s, [s.fr EXCEPT !.si_idx = picked(s)], err)

\* the statement the program executes next in state s ("" when it has
\* returned or raised, or MaxEmit replacements were emitted)
Returned(done, ret) ==
    IF ~done THEN "NextRetry"
    ELSE IF ret = "prime" THEN "NextReturnPrime" ELSE "NextReturnRun"

StepOf(s) ==
    IF s.pc = "prime"
    THEN (IF s.fr.prime_idx <= Len(s.items) THEN "PrimeNext" ELSE "StartRun")
    ELSE IF s.pc = "next" THEN Returned(NextIter(s).done, s.fr.ret)
    ELSE IF s.pc = "scan"
    THEN (IF s.search_items = <<>> THEN "Finish"
          ELSE IF ~Emits(s) THEN "Stale"
          ELSE IF Len(s.emitted) >= MaxEmit THEN ""
          ELSE IF get_replace_err(s.self, s.items[Chosen(s)]) # "" THEN "EmitRaise"
          ELSE IF LimitHit(s) THEN "EmitLimit"
          ELSE IF s.self.allow_overlaps THEN "EmitOverlap" ELSE "EmitSkip")
    ELSE ""

\* the state after the statement step is executed in state s
Apply(s, step) ==
    CASE step = "PrimeNext" -> prime_next(s)
      [] step = "StartRun" -> start_run(s)
      [] step = "NextRetry" -> next_retry(s, NextIter(s))
      [] step = "NextReturnPrime" -> next_return_prime(s, NextIter(s))
      [] step = "NextReturnRun" -> next_return_run(s, NextIter(s))
      [] step = "Finish" -> finish(s)
      [] step = "Stale" -> stale(s, Chosen(s))
      [] step = "EmitRaise" -> emit_raise(s, get_replace_err(s.self, s.items[Chosen(s)]))
      [] OTHER -> emit_pass(s, Emission(s))

RECURSIVE RunFrom(_, _)
\* the state the program reaches from s within fuel statements: the final
\* state when it returns or raises, the state the fuel ran out in otherwise
RunFrom(s, fuel) ==
    IF fuel = 0 \/ StepOf(s) = "" THEN s
    ELSE RunFrom(Apply(s, StepOf(s)), fuel - 1)

RunFuel == 12 * (MaxLen + 2)

\* the outcome of the call with arguments a
Run(a) == RunFrom(InitState(a), RunFuel)

\* ---------------------------------------------------------- state machine
VARIABLES
    args,          \* arguments of the unidecode_replace / unidecode_wrap call
    self,          \* fields of the UnidecodeReplace instance
    items,         \* the SearchItem objects, by declaration index
    search_items,  \* self.search_items: declaration indexes of the active items
    pc,            \* control point: "prime", "next", "scan", "done", "error"
    fr,            \* locals of __init__ / run / next
    emitted        \* history: the replacements emitted so far

vars == <<args, self, items, search_items, pc, fr, emitted>>

State == [self |-> self, items |-> items, search_items |-> search_items,
          pc |-> pc, fr |-> fr, emitted |-> emitted]

Becomes(s) ==
    /\ self' = s.self
    /\ items' = s.items
    /\ search_items' = s.search_items
    /\ pc' = s.pc
    /\ fr' = s.fr
    /\ emitted' = s.emitted
    /\ args' = args

InitFor(a) ==
    \E s \in {InitState(a)} :
        /\ args = a
        /\ self = s.self
        /\ items = s.items
        /\ search_items = s.search_items
        /\ pc = s.pc
        /\ fr = s.fr
        /\ emitted = s.emitted

PrimeNext ==
    /\ pc = "prime"
    /\ fr.prime_idx <= Len(items)
    /\ \E s \in {prime_next(State)} : Becomes(s)

StartRun ==
    /\ pc = "prime"
    /\ fr.prime_idx > Len(items)
    /\ \E s \in {start_run(State)} : Becomes(s)

NextRetry ==
    /\ pc = "next"
    /\ \E n \in {NextIter(State)} :
          /\ ~n.done
          /\ \E s \in {next_retry(State, n)} : Becomes(s)

NextReturnPrime ==
    /\ pc = "next"
    /\ fr.ret = "prime"
    /\ \E n \in {NextIter(State)} :
          /\ n.done
          /\ \E s \in {next_return_prime(State, n)} : Becomes(s)

NextReturnRun ==
    /\ pc = "next"
    /\ fr.ret = "run"
    /\ \E n \in {NextIter(State)} :
          /\ n.done
          /\ \E s \in {next_return_run(State, n)} : Becomes(s)

Finish ==
    /\ pc = "scan"
    /\ search_items = <<>>
    /\ \E s \in {finish(State)} : Becomes(s)

Stale ==
    /\ StepOf(State) = "Stale"
    /\ \E s \in {stale(State, Chosen(State))} : Becomes(s)

EmitRaise ==
    /\ StepOf(State) = "EmitRaise"
    /\ \E s \in {emit_raise(State, get_replace_err(self, items[Chosen(State)]))} :
          Becomes(s)

EmitLimit ==
    /\ StepOf(State) = "EmitLimit"
    /\ \E s \in {emit_pass(State, Emission(State))} : Becomes(s)

EmitOverlap ==
    /\ StepOf(State) = "EmitOverlap"
    /\ \E s \in {emit_pass(State, Emission(State))} : Becomes(s)

EmitSkip ==
    /\ StepOf(State) = "EmitSkip"
    /\ \E s \in {emit_pass(State, Emission(State))} : Becomes(s)

Next ==
    \/ PrimeNext
    \/ StartRun
    \/ NextRetry
    \/ NextReturnPrime
    \/ NextReturnRun
    \/ Finish
    \/ Stale
    \/ EmitRaise
    \/ EmitLimit
    \/ EmitOverlap
    \/ EmitSkip

\* ------------------------------------------------------------ the calls
Alphabet == {"a", "b", "W"}

TextsOver(chars) == UNION {[1..n -> chars] : n \in 0..MaxLen}

\* a literal search term / a compiled pattern (alternation of literals)
Literal(t) == [kind |-> "str", alts |-> <<t>>, ic |-> FALSE, groups |-> <<>>]

Pattern(alts) == [kind |-> "re", alts |-> alts, ic |-> FALSE, groups |-> <<>>]

\* a pattern compiled with re.I
PatternI(alts) == [kind |-> "re", alts |-> alts, ic |-> TRUE, groups |-> <<>>]

\* a capture group of a pattern: it encloses the characters lo..hi (offsets
\* in the source) of alternative alt; name is "" for an unnamed group
CaptureGroup(alt, lo, hi, name) == [alt |-> alt, lo |-> lo, hi |-> hi, name |-> name]

\* a pattern with capture groups, listed in the order of their numbers
PatternG(alts, gs) == [kind |-> "re", alts |-> alts, ic |-> FALSE, groups |-> gs]

\* a literal substitution / the callable of unidecode_wrap
SubStr(t) == [kind |-> "str", text |-> t, prefix |-> <<>>, suffix |-> <<>>]

SubWrap == [kind |-> "call", text |-> <<>>, prefix |-> <<"<">>, suffix |-> <<">">>]

\* the terms searched alone and the lists of several terms
SingleLists == {<<Literal(<<"a">>)>>, <<Literal(<<"a", "a">>)>>, <<Literal(<<"W">>)>>,
                <<Pattern(<<<<"a", "b">>, <<"a">>>>)>>}

MultiLists == {<<Literal(<<"a", "b">>), Literal(<<"a">>)>>,
               <<Literal(<<"a">>), Literal(<<"a", "b">>)>>,
               <<Literal(<<"b">>), Literal(<<"a">>)>>,
               <<Literal(<<"W">>), Pattern(<<<<"a", "b">>, <<"a">>>>)>>,
               <<Literal(<<"a">>), Literal(<<"a", "b">>), Literal(<<"b">>)>>}

SearchLists == SingleLists \cup MultiLists

\* one sub per search ("X", "Y", "Z") or the single callable of wrap
SubNames == <<"X", "Y", "Z">>

NamedSubs(search) == [i \in 1..Len(search) |-> SubStr(<<SubNames[i]>>)]

Windows(text) == {<<Some(p), Some(e)>> : p \in 0..Len(text), e \in 0..Len(text)}

NoWindow == <<None, None>>

Counts == {None, Some(1), Some(2)}

Call(text, search, sub, ov, cnt, win, uni) ==
    [string |-> text, search |-> search, sub |-> sub, allow_overlaps |-> ov,
     re_search |-> FALSE, re_flags_I |-> FALSE, count |-> cnt, count_is_int |-> TRUE,
     pos |-> win[1], endpos |-> win[2],
     unidecoded_search |-> uni, str_case_sensitive |-> TRUE]

\* calls with one term and every window
InitWindow ==
    \E t \in TextsOver(Alphabet), s \in SearchLists, ov \in BOOLEAN, uni \in BOOLEAN :
        \E w \in Windows(t) :
            InitFor(Call(t, s, NamedSubs(s), ov, None, w, uni))

\* calls with one or several terms and every count
InitCount ==
    \E t \in TextsOver(Alphabet), s \in SearchLists, ov \in BOOLEAN, c \in Counts,
       uni \in BOOLEAN :
        InitFor(Call(t, s, NamedSubs(s), ov, c, NoWindow, uni))

\* calls of unidecode_wrap
InitWrap ==
    \E t \in TextsOver(Alphabet), s \in SearchLists, ov \in BOOLEAN, uni \in BOOLEAN :
        InitFor(Call(t, s, <<SubWrap>>, ov, None, NoWindow, uni))

\* with a character of empty expansion and one without table entry
WideAlphabet == {"a", "W", "E", "N"}

WideTerms == {Literal(<<"a", "E">>), Literal(<<"N", "a">>), Literal(<<"E">>),
              Pattern(<<<<"W", "E">>>>)}

\* transliterated calls over the wide alphabet
InitWide ==
    \E t \in TextsOver(WideAlphabet), s \in WideTerms, rs \in BOOLEAN :
        InitFor([Call(t, <<s>>, NamedSubs(<<s>>), FALSE, None, NoWindow, TRUE)
                    EXCEPT !.re_search = rs])

\* with a character whose expansion has a capital, and a capital
CaseAlphabet == {"a", "B", "V"}

CaseTerms == {Literal(<<"V">>), Literal(<<"B", "a">>), Literal(<<"b", "a">>)}

\* transliterated calls with str_case_sensitive True and False
InitCase ==
    \E t \in TextsOver(CaseAlphabet), s \in CaseTerms, cs \in BOOLEAN,
       sub \in {<<SubStr(<<"X">>)>>, <<SubWrap>>} :
        InitFor([Call(t, <<s>>, sub, FALSE, None, NoWindow, TRUE)
                    EXCEPT !.str_case_sensitive = cs])

\* with a capital and the small letter it lowers to
FlagAlphabet == {"a", "b", "B"}

FlagLists == {<<Pattern(<<<<"B">>>>)>>, <<PatternI(<<<<"B">>>>)>>,
              <<Literal(<<"B">>)>>, <<Literal(<<"b">>)>>,
              <<Literal(<<"b">>), Pattern(<<<<"B">>>>)>>,
              <<Literal(<<"a">>), PatternI(<<<<"B">>>>)>>,
              <<PatternI(<<<<"b", "a">>>>), Literal(<<"B">>)>>}

\* calls with every combination of re_search, re_flags and
\* str_case_sensitive
InitFlags ==
    \E t \in TextsOver(FlagAlphabet), s \in FlagLists, rs \in BOOLEAN, rf \in BOOLEAN,
       cs \in BOOLEAN, uni \in BOOLEAN :
        InitFor([Call(t, s, NamedSubs(s), FALSE, None, NoWindow, uni)
                    EXCEPT !.re_search = rs, !.re_flags_I = rf,
                           !.str_case_sensitive = cs])

\* with the line feed
GroupAlphabet == {"a", "b", "W", LF}

\* patterns with capture groups, each with the substitutions used with it:
\* templates that refer to its groups, a plain string, the callable of wrap
Template(t) == SubStr(t)

GroupCalls ==
    {\* (a)(b) with \2\1
     <<PatternG(<<<<"a", "b">>>>, <<CaptureGroup(1, 0, 1, ""), CaptureGroup(1, 1, 2, "")>>),
       Template(<<"%2", "%1">>)>>,
     <<PatternG(<<<<"a", "b">>>>, <<CaptureGroup(1, 0, 1, ""), CaptureGroup(1, 1, 2, "")>>),
       SubStr(<<"X">>)>>,
     <<PatternG(<<<<"a", "b">>>>, <<CaptureGroup(1, 0, 1, ""), CaptureGroup(1, 1, 2, "")>>),
       SubWrap>>,
     \* (W)(a) with \2\1
     <<PatternG(<<<<"W", "a">>>>, <<CaptureGroup(1, 0, 1, ""), CaptureGroup(1, 1, 2, "")>>),
       Template(<<"%2", "%1">>)>>,
     \* (?P<x>a)(\n)|(?P<y>b) with [\g<y>\2\g<x>]
     <<PatternG(<<<<"a", LF>>, <<"b">>>>,
                <<CaptureGroup(1, 0, 1, "x"), CaptureGroup(1, 1, 2, ""),
                  CaptureGroup(2, 0, 1, "y")>>),
       Template(<<"[", "%y", "%2", "%x", "]">>)>>,
     \* ((?P<x>a)b)() with \3\g<x>\1
     <<PatternG(<<<<"a", "b">>>>,
                <<CaptureGroup(1, 0, 2, ""), CaptureGroup(1, 0, 1, "x"),
                  CaptureGroup(1, 2, 2, "")>>),
       Template(<<"%3", "%x", "%1">>)>>,
     \* (a)(?P<x>a)|(b)(?P<y>a) with \g<x>\1\3\g<y>
     <<PatternG(<<<<"a", "a">>, <<"b", "a">>>>,
                <<CaptureGroup(1, 0, 1, ""), CaptureGroup(1, 1, 2, "x"),
                  CaptureGroup(2, 0, 1, ""), CaptureGroup(2, 1, 2, "y")>>),
       Template(<<"%x", "%1", "-", "%3", "%y">>)>>}

\* calls with one pattern that has capture groups
InitGroups ==
    \E t \in TextsOver(GroupAlphabet), c \in GroupCalls, uni \in BOOLEAN :
        InitFor(Call(t, <<c[1]>>, <<c[2]>>, FALSE, None, NoWindow, uni))

\* a search that is neither a string nor a pattern, a sub that is neither
\* a string nor a callable (the 13.17 of the tests)
SearchOther == [kind |-> "other", alts |-> <<>>, ic |-> FALSE, groups |-> <<>>]

SubOther == [kind |-> "other", text |-> <<>>, prefix |-> <<>>, suffix |-> <<>>]

\* search arguments with no term, empty terms, terms of empty
\* transliteration, patterns that match the empty text, terms of a wrong
\* type, and lists of one to three proper terms
ValidationLists ==
    {<<>>, <<Literal(<<>>)>>, <<Literal(<<"E">>)>>, <<Literal(<<"E", "N">>)>>,
     <<Pattern(<<<<>>>>)>>, <<Pattern(<<<<"a">>, <<>>>>)>>, <<SearchOther>>,
     <<Literal(<<"a">>)>>, <<Pattern(<<<<"a">>>>)>>,
     <<Literal(<<"a">>), Literal(<<"b">>)>>,
     <<Literal(<<"a">>), Literal(<<>>)>>,
     <<SearchOther, Literal(<<>>)>>,
     <<Literal(<<"b">>), Literal(<<"a", "b">>), Literal(<<"a">>)>>}

\* sub arguments with no, one, two and three subs, and subs of a wrong type
ValidationSubs ==
    {<<>>, <<SubStr(<<"X">>)>>, <<SubWrap>>, <<SubOther>>,
     <<SubStr(<<"X">>), SubStr(<<"Y">>)>>, <<SubStr(<<"X">>), SubOther>>,
     <<SubStr(<<"X">>), SubStr(<<"Y">>), SubStr(<<"Z">>)>>}

\* count: unset, 0, -1, 1, 2 and the float 1.0
ValidationCounts ==
    {<<None, TRUE>>, <<Some(0), TRUE>>, <<Some(-1), TRUE>>, <<Some(1), TRUE>>,
     <<Some(2), TRUE>>, <<Some(1), FALSE>>}

\* calls with arguments that the validation accepts or rejects
InitValidation ==
    \E t \in TextsOver({"a", "b"}), s \in ValidationLists, sub \in ValidationSubs,
       c \in ValidationCounts, uni \in BOOLEAN, rs \in BOOLEAN,
       w \in {NoWindow, <<Some(0), Some(0)>>} :
        InitFor([Call(t, s, sub, FALSE, c[1], w, uni)
                    EXCEPT !.re_search = rs, !.count_is_int = c[2]])

\* patterns with a lookahead: (?=a), b|(?=a), (?=)
LookaheadPatterns ==
    {Pattern(<<<<LA, "a">>>>), Pattern(<<<<"b">>, <<LA, "a">>>>), Pattern(<<<<LA>>>>)}

\* calls with one pattern that has a lookahead
InitLookahead ==
    \E t \in TextsOver({"a", "b"}), s \in LookaheadPatterns, ov \in BOOLEAN,
       sub \in {SubStr(<<"X">>), SubWrap}, c \in {None, Some(2)}, uni \in BOOLEAN :
        InitFor(Call(t, <<s>>, <<sub>>, ov, c, NoWindow, uni))

Init ==
    \/ InitWindow
    \/ InitCount
    \/ InitWrap
    \/ InitWide
    \/ InitCase
    \/ InitFlags
    \/ InitGroups
    \/ InitValidation
    \/ InitLookahead

Spec == Init /\ [][Next]_vars

\* run() is sequential code: a statement that can execute does execute
FairSpec == Spec /\ WF_vars(Next)

\* ================================================================ claims
Last(seq) == seq[Len(seq)]

\* the per-character expansions of the string of the call
Chunks == unidecode_repl(args.string, "preserve")

\* the offset lies strictly inside the expansion of one original character
InsideExpansion(off) ==
    \E i \in 1..Len(Chunks) :
        PrefixLen(Chunks, i - 1) < off /\ off < PrefixLen(Chunks, i)

\* original index i is a character boundary lying at projection offset off
BoundaryAt(off, i) == i \in 0..Len(Chunks) /\ PrefixLen(Chunks, i) = off

\* the text a substitution produces for the matched text
SubText(sub, matched) ==
    IF sub.kind = "str" THEN sub.text ELSE sub.prefix \o matched \o sub.suffix

RECURSIVE NativeFrom(_, _, _, _, _)
\* str.replace / re.sub on text from offset from: leftmost non-overlapping
\* occurrences, at most left of them (left < 0: no limit)
NativeFrom(text, term, sub, from, left) ==
    LET hit == IF term.kind = "str"
               THEN (LET p == index(text, term.alts[1], from)
                     IN  IF p < 0 THEN None
                         ELSE Some([start |-> p, end |-> p + Len(term.alts[1])]))
               ELSE re_search(text, term.alts, term.ic, from)
    IN  IF left = 0 \/ from > Len(text) \/ IsNone(hit) THEN PyTail(text, from)
        ELSE PySlice(text, from, Val(hit).start)
             \o SubText(sub, PySlice(text, Val(hit).start, Val(hit).end))
             \o NativeFrom(text, term, sub, Val(hit).end, left - 1)

\* the native single-pass replace of the one term of call a inside the
\* window of a, the text outside the window kept
Native(a) ==
    LET p == IF IsNone(a.pos) THEN 0 ELSE Val(a.pos)
        e == IF IsNone(a.endpos) THEN Len(a.string) ELSE Min2(Len(a.string), Val(a.endpos))
    IN  IF p > e THEN a.string
        ELSE PySlice(a.string, 0, p)
             \o NativeFrom(PySlice(a.string, p, e), a.search[1], a.sub[1], 0,
                           IF IsNone(a.count) THEN -1 ELSE Val(a.count))
             \o PyTail(a.string, e)

\* C1 (identity law): with unidecoded_search = False and one literal or
\* pattern term, the call returns what the native leftmost non-overlapping
\* str.replace / re.sub returns for the same text, substitution, count and
\* window.
C1_Identity ==
    (pc = "done" /\ ~args.unidecoded_search /\ Len(args.search) = 1
        /\ ~args.allow_overlaps)
    => fr.result = Native(args)

\* C2 (alignment law): in transliterated mode every emitted replacement
\* span starts and ends on an original-character boundary: neither
\* projection offset of the match lies strictly inside the expansion of one
\* original character, and the original span is made of the boundaries at
\* these offsets.
C2_Alignment ==
    args.unidecoded_search =>
        \A i \in 1..Len(emitted) :
            /\ ~InsideExpansion(emitted[i].ustart)
            /\ ~InsideExpansion(emitted[i].uend)
            /\ BoundaryAt(emitted[i].ustart, emitted[i].start)
            /\ BoundaryAt(emitted[i].uend, emitted[i].end)

\* a hit inside the expansion of "W" was passed over, the aligned one replaced
C2_Witness ==
    /\ pc = "done"
    /\ args.unidecoded_search
    /\ args.string = <<"W", "a">>
    /\ args.search = <<Literal(<<"a">>)>>
    /\ args.sub = <<SubStr(<<"X">>)>>
    /\ fr.result = <<"W", "X">>

\* C3 (overlap law): without allow_overlaps every emitted span starts at or
\* after the end of the span emitted before it; with allow_overlaps every
\* pass of the loop emits its candidate, also when the candidate starts
\* inside the span emitted before.
C3_Overlap ==
    /\ [](~self.allow_overlaps =>
            \A i \in 2..Len(emitted) : emitted[i].start >= emitted[i - 1].end)
    /\ [][(pc = "scan" /\ search_items # <<>> /\ self.allow_overlaps)
            => Len(emitted') = Len(emitted) + 1]_vars

\* 'aa' in "aaa" with count = 2: the second occurrence starts inside the
\* first and is replaced too
C3_Witness ==
    /\ pc = "done"
    /\ args.allow_overlaps
    /\ args.string = <<"a", "a", "a">>
    /\ args.search = <<Literal(<<"a", "a">>)>>
    /\ args.sub = <<SubStr(<<"X">>)>>
    /\ args.count = Some(2)
    /\ Len(emitted) = 2
    /\ emitted[1].start = 0 /\ emitted[1].end = 2
    /\ emitted[2].start = 1 /\ emitted[2].end = 3
    /\ fr.result = <<"X", "X">>

\* the window of the call satisfies 0 <= pos <= endpos <= len(text)
WindowInRange ==
    /\ 0 <= self.pos
    /\ self.pos <= self.endpos
    /\ self.endpos <= Len(self.string)

\* C4 (window law): for 0 <= pos <= endpos <= len(text) every replaced span
\* [s, e) satisfies pos <= s and e <= endpos, and the text before pos and
\* the text from endpos on appear unchanged in the output.
C4_Window ==
    WindowInRange =>
        /\ \A i \in 1..Len(emitted) :
              self.pos <= emitted[i].start /\ emitted[i].end <= self.endpos
        /\ pc = "done" =>
              /\ PySlice(fr.result, 0, self.pos) = PySlice(self.string, 0, self.pos)
              /\ Len(fr.result) >= Len(self.string) - self.endpos
              /\ PyTail(fr.result, Len(fr.result) - (Len(self.string) - self.endpos))
                    = PyTail(self.string, self.endpos)

\* C5 (window start policy): in both alignment modes every emitted match
\* start s satisfies pos <= s < endpos.
C5_WindowStart ==
    \A i \in 1..Len(emitted) :
        self.pos <= emitted[i].start /\ emitted[i].start < self.endpos

\* the same call without a limit
Unlimited == Run([args EXCEPT !.count = None])

\* the replacements of two runs agree: term, spans and replacement text
SameEmission(e, f) ==
    /\ e.term = f.term
    /\ e.start = f.start /\ e.end = f.end /\ e.at = f.at
    /\ e.repl = f.repl /\ e.out = f.out

\* C6 (count law): a call with count = N, N a count that run() accepts
\* (a positive integer), never performs more than N
\* replacements, counted over all terms together; when it returns it has
\* performed min(N, M) replacements, M the number the same call performs
\* without a limit, they are the first min(N, M) replacements of the
\* unlimited call, and the original text after the last of them is appended
\* unchanged.
C6_Count ==
    (~IsNone(args.count) /\ count_ok(args)) =>
        /\ Len(emitted) <= Val(args.count)
        /\ pc = "done" =>
              \E u \in {Unlimited} :
                  /\ Len(emitted) = Min2(Val(args.count), Len(u.emitted))
                  /\ \A i \in 1..Len(emitted) : SameEmission(emitted[i], u.emitted[i])
                  /\ fr.state = IF Len(emitted) = Val(args.count) THEN "LIMIT_REACHED"
                                ELSE "COMPLETE"
                  /\ fr.result = IF emitted = <<>> THEN self.string
                                 ELSE SubSeq(u.fr.result, 1, Last(emitted).out)
                                      \o PyTail(self.string, Last(emitted).end)

\* count = 1 with two terms that both occur: only the first replacement of
\* the unlimited run ('ab' -> 'XY') is performed, by whichever term
C6_Witness ==
    /\ pc = "done"
    /\ args.count = Some(1)
    /\ args.string = <<"a", "b">>
    /\ args.search = <<Literal(<<"b">>), Literal(<<"a">>)>>
    /\ args.sub = NamedSubs(args.search)
    /\ ~args.allow_overlaps
    /\ args.unidecoded_search
    /\ Len(emitted) = 1
    /\ Len(Unlimited.emitted) = 2
    /\ fr.state = "LIMIT_REACHED"
    /\ fr.result = <<"Y", "b">>

\* C7 (termination): every call leaves the scan loop after finitely many
\* passes and returns (COMPLETE or LIMIT_REACHED); calls that raise and
\* calls cut at MaxEmit replacements are not held against the statement.
C7_Termination ==
    <>(fr.state \in {"COMPLETE", "LIMIT_REACHED", "ERROR"} \/ Len(emitted) >= MaxEmit)

\* the active list holds declaration indexes in increasing order
DeclarationOrder ==
    \A i \in 1..Len(search_items), j \in 1..Len(search_items) :
        i < j => search_items[i] < search_items[j]

\* the active term c has the smallest cursor, and the smallest
\* declaration index among the terms with that cursor
SmallestPending(c) ==
    /\ \E i \in 1..Len(search_items) : search_items[i] = c
    /\ \A i \in 1..Len(search_items) :
          \/ items[c].pos < items[search_items[i]].pos
          \/ items[c].pos = items[search_items[i]].pos /\ c <= search_items[i]

\* C8 (selection order): the term processed by a pass of the loop of run()
\* - the one whose replacement is emitted, or the one made to search again
\* when nothing is emitted - is the active term with the smallest pending
\* position, the first declared among the terms that share it.
C8_Selection ==
    /\ []DeclarationOrder
    /\ [][(pc = "scan" /\ search_items # <<>>) =>
             SmallestPending(IF Len(emitted') > Len(emitted)
                             THEN Last(emitted').term ELSE fr'.cur)]_vars

\* 'ab' and 'a' both match "ab" at 0: the replacement of the first
\* declared term is the one emitted
C8_Witness ==
    /\ pc = "done"
    /\ args.string = <<"a", "b">>
    /\ args.search = <<Literal(<<"a", "b">>), Literal(<<"a">>)>>
    /\ args.sub = NamedSubs(args.search)
    /\ IsNone(args.count)
    /\ Len(emitted) = 1
    /\ emitted[1].term = 1
    /\ fr.result = <<"X">>

\* C9 (wrap law): the callable of unidecode_wrap turns every match, of a
\* literal term and of a pattern term alike, into prefix + the matched span
\* of the original text + suffix.
C9_Wrap ==
    \A i \in 1..Len(emitted) :
        items[emitted[i].term].sub.kind = "call" =>
            emitted[i].repl = items[emitted[i].term].sub.prefix
                              \o PySlice(self.string, emitted[i].start, emitted[i].end)
                              \o items[emitted[i].term].sub.suffix

\* a pattern match and a literal match wrapped: "aW" becomes "<a><W>"
C9_Witness ==
    /\ pc = "done"
    /\ args.unidecoded_search
    /\ args.string = <<"a", "W">>
    /\ args.search = <<Literal(<<"W">>), Pattern(<<<<"a", "b">>, <<"a">>>>)>>
    /\ args.sub = <<SubWrap>>
    /\ ~args.allow_overlaps
    /\ IsNone(args.count)
    /\ fr.result = <<"<", "a", ">", "<", "W", ">">>

\* the call with every literal term replaced by its transliteration
TransliteratedTerms ==
    [args EXCEPT !.search = [i \in 1..Len(args.search) |->
                                Literal(unidecode(args.search[i].alts[1]))]]

\* C10 (transliteration-invariant literal search): in transliterated mode
\* a call with literal terms ends as the call with the transliterated
\* terms ends: same outcome, same replaced spans of the original text,
\* same output.
C10_Transliterated ==
    (/\ pc \in {"done", "error"}
     /\ args.unidecoded_search
     /\ \A i \in 1..Len(args.search) : args.search[i].kind = "str")
    => \E r \in {Run(TransliteratedTerms)} :
          /\ r.pc = pc
          /\ r.fr.err = fr.err
          /\ r.fr.result = fr.result
          /\ Len(r.emitted) = Len(emitted)
          /\ \A i \in 1..Len(emitted) : SameEmission(emitted[i], r.emitted[i])

\* the normalised search of item it occurs in the text it searches at
\* projection offsets [us, ue)
Occurs(it, us, ue) ==
    \E k \in 1..Len(it.search) :
        /\ ue = us + (IF it.kind = "str" THEN Len(it.search[k])
                       ELSE alt_width(it.search[k]))
        /\ IF it.kind = "str"
           THEN MatchesAt(item_uni_str(self, it), it.search[k], us)
           ELSE alt_matches(item_uni_str(self, it), it.search[k], it.ic, us)

\* the original span [s, e) lies at projection offsets [us, ue)
SpanAt(s, e, us, ue) ==
    IF self.unidecoded_search THEN BoundaryAt(us, s) /\ BoundaryAt(ue, e)
    ELSE s = us /\ e = ue

\* some term has an aligned match whose original span lies in the window
ValidMatch ==
    \E i \in 1..Len(items) :
        \E s \in 0..Len(self.string), e \in 0..Len(self.string) :
            /\ self.pos <= s /\ s < e /\ e <= self.endpos
            /\ \E us \in 0..(2 * MaxLen), ue \in 0..(2 * MaxLen) :
                  SpanAt(s, e, us, ue) /\ Occurs(items[i], us, ue)

\* C11 (no-match identity): a call none of whose terms has an aligned match
\* inside the window does not raise, replaces nothing, and returns the
\* input text.
C11_NoMatch ==
    (items # <<>> /\ ~ValidMatch) =>
        /\ pc # "error"
        /\ emitted = <<>>
        /\ pc = "done" => fr.result = self.string

C13_OverlapScope ==
    \A i \in 1..Len(emitted) :
        (self.allow_overlaps /\ items[emitted[i].term].sub.kind = "call") =>
            emitted[i].repl = wrap_sub(items[emitted[i].term].sub.prefix,
                                       PySlice(self.string, emitted[i].at, emitted[i].end),
                                       items[emitted[i].term].sub.suffix)

\* the same call with the case-sensitive literal search
CaseSensitive == Run([args EXCEPT !.str_case_sensitive = TRUE])

\* C14 (case-insensitive literal search): every span the case-sensitive
\* search of a literal term replaces is also replaced by the
\* case-insensitive search of the same term in the same text.
C14_CaseInsensitive ==
    (/\ pc = "done"
     /\ ~args.str_case_sensitive
     /\ Len(args.search) = 1
     /\ args.search[1].kind = "str" /\ ~args.re_search)
    => \E r \in {CaseSensitive} :
          r.pc = "done" =>
              \A i \in 1..Len(r.emitted) :
                  \E j \in 1..Len(emitted) :
                      /\ emitted[j].start = r.emitted[i].start
                      /\ emitted[j].end = r.emitted[i].end

\* the outcome r is the outcome of this call: same end, same output, same
\* replacements
SameOutcome(r) ==
    /\ r.pc = pc
    /\ r.fr.err = fr.err
    /\ r.fr.result = fr.result
    /\ Len(r.emitted) = Len(emitted)
    /\ \A i \in 1..Len(emitted) : SameEmission(emitted[i], r.emitted[i])

\* term i is searched as a pattern: a compiled pattern, or a string
\* compiled because of re_search
IsPatternTerm(i) == args.search[i].kind = "re" \/ args.re_search

\* re.I among the flags term i is compiled with
OwnFlagI(i) ==
    IF args.search[i].kind = "re" THEN args.search[i].ic ELSE args.re_flags_I

\* the projection of the string of the call, letter case kept
Projection == IF args.unidecoded_search THEN Concat(Chunks) ELSE args.string

\* the same call with the other value of str_case_sensitive
OtherCase == Run([args EXCEPT !.str_case_sensitive = ~args.str_case_sensitive])

\* C15 (str_case_sensitive non-interference): a call whose terms are all
\* patterns ends the same way for both values of str_case_sensitive; in
\* every call a pattern term searches the text its own flags select, and
\* each of its matches is an occurrence of the pattern under its own flags,
\* whatever the sensitivity of the literal terms of the call.
C15_CaseNonInterference ==
    /\ (pc \in {"done", "error"} /\ \A i \in 1..Len(args.search) : IsPatternTerm(i))
          => SameOutcome(OtherCase)
    /\ \A i \in 1..Len(items) :
          IsPatternTerm(i) =>
              item_uni_str(self, items[i])
                  = IF OwnFlagI(i) THEN lower(Projection) ELSE Projection
    /\ \A j \in 1..Len(emitted) :
          IsPatternTerm(emitted[j].term) =>
              \E k \in 1..Len(items[emitted[j].term].search) :
                  /\ emitted[j].uend
                        = emitted[j].ustart + alt_width(items[emitted[j].term].search[k])
                  /\ alt_matches(Projection, items[emitted[j].term].search[k],
                                 OwnFlagI(emitted[j].term), emitted[j].ustart)

\* a case-sensitive literal and a pattern compiled with re.I in one call:
\* the pattern 'B' replaces "b" and "B", the literal 'a' only "a"
C15_Witness ==
    /\ pc = "done"
    /\ args.str_case_sensitive
    /\ ~args.re_search
    /\ args.string = <<"a", "b", "B">>
    /\ args.search = <<Literal(<<"a">>), PatternI(<<<<"B">>>>)>>
    /\ args.sub = NamedSubs(args.search)
    /\ fr.result = <<"X", "Y", "Y">>
    /\ OtherCase.fr.result = fr.result

\* the same call with the other value of re_flags
OtherFlags == Run([args EXCEPT !.re_flags_I = ~args.re_flags_I])

\* C16 (re_flags non-interference): a call whose terms are compiled
\* patterns or literal strings ends the same way for both values of
\* re_flags; the pattern of an item built from a compiled argument has the
\* flags of that argument, the pattern of an item built from a string has
\* re_flags.
C16_FlagsNonInterference ==
    /\ (pc \in {"done", "error"} /\ ~args.re_search) => SameOutcome(OtherFlags)
    /\ (pc \in {"done", "error"} /\ \A i \in 1..Len(args.search) : args.search[i].kind = "re")
          => SameOutcome(OtherFlags)
    /\ \A i \in 1..Len(items) :
          items[i].kind = "re" =>
              items[i].ic = IF args.search[i].kind = "re" THEN args.search[i].ic
                            ELSE args.re_flags_I

\* re_flags = re.I next to a pattern compiled without it: the compiled
\* pattern 'B' stays case-sensitive, the string 'b' compiled by re_search
\* matches "b" and "B"
C16_Witness ==
    /\ pc = "done"
    /\ args.re_search /\ args.re_flags_I
    /\ args.string = <<"b", "B">>
    /\ args.search = <<Literal(<<"b">>), Pattern(<<<<"B">>>>)>>
    /\ args.sub = NamedSubs(args.search)
    /\ items[1].kind = "re" /\ items[1].ic
    /\ ~items[2].ic
    /\ fr.result = <<"X", "X">>
    /\ OtherFlags.fr.result = <<"X", "Y">>

\* C17 as stated (pattern term construction): the source of a compiled
\* pattern is used as it is given, with the flags of the argument; the
\* source given as a string is transliterated when the search is.
C17_AsIs ==
    \A i \in 1..Len(items) :
        /\ args.search[i].kind = "re" =>
              /\ items[i].search = args.search[i].alts
              /\ items[i].ic = args.search[i].ic
        /\ (args.search[i].kind = "str" /\ args.re_search) =>
              items[i].search = <<IF args.unidecoded_search
                                  THEN unidecode(args.search[i].alts[1])
                                  ELSE args.search[i].alts[1]>>

\* the source of pattern term i as the search uses it
SourceOf(i) ==
    [k \in 1..Len(args.search[i].alts) |->
        IF args.unidecoded_search THEN unidecode(args.search[i].alts[k])
        ELSE args.search[i].alts[k]]

\* C17 as amended: a pattern term, compiled argument or source string,
\* keeps its own flags and has its source transliterated when
\* transliterated search is requested; its matches are the occurrences of
\* the transliterated source in the projection.
C17_PatternSource ==
    /\ \A i \in 1..Len(items) :
          IsPatternTerm(i) =>
              /\ items[i].kind = "re"
              /\ items[i].ic = OwnFlagI(i)
              /\ items[i].search = SourceOf(i)
    /\ \A j \in 1..Len(emitted) :
          IsPatternTerm(emitted[j].term) =>
              \E k \in 1..Len(SourceOf(emitted[j].term)) :
                  /\ emitted[j].uend = emitted[j].ustart
                                         + alt_width(SourceOf(emitted[j].term)[k])
                  /\ alt_matches(Projection, SourceOf(emitted[j].term)[k],
                                 OwnFlagI(emitted[j].term), emitted[j].ustart)

\* the compiled pattern 'WE' is searched as 'ab' and replaces both "W"
C17_Witness ==
    /\ pc = "done"
    /\ args.unidecoded_search
    /\ ~args.re_search
    /\ args.string = <<"W", "W">>
    /\ args.search = <<Pattern(<<<<"W", "E">>>>)>>
    /\ items[1].search = <<<<"a", "b">>>>
    /\ Len(emitted) = 2
    /\ fr.result = <<"X", "X">>

\* the original offset o is what the index map gives for projection offset
\* u: a boundary of the original string that lies at u
RebasedTo(u, o) ==
    IF args.unidecoded_search THEN BoundaryAt(u, o) ELSE o = u

\* the accessors of the pending match of item it agree for group g: start
\* and end are the rebased offsets of the group in the projection, the
\* value is that slice of the original string; -1, -1 and None for a group
\* that took no part
RebasedGroup(it, g) ==
    IF original_start(it, Val(it.m), g) < 0
    THEN /\ group_start(self, it, Val(it.m), g) = [err |-> "", val |-> -1]
         /\ group_end(self, it, Val(it.m), g) = [err |-> "", val |-> -1]
         /\ group(self, it, Val(it.m), g) = [err |-> "", val |-> None]
    ELSE /\ group_start(self, it, Val(it.m), g).err = ""
         /\ group_end(self, it, Val(it.m), g).err = ""
         /\ RebasedTo(original_start(it, Val(it.m), g),
                      group_start(self, it, Val(it.m), g).val)
         /\ RebasedTo(original_end(it, Val(it.m), g),
                      group_end(self, it, Val(it.m), g).val)
         /\ group(self, it, Val(it.m), g)
               = [err |-> "",
                  val |-> Some(SubSeq(self.string,
                                      group_start(self, it, Val(it.m), g).val + 1,
                                      group_end(self, it, Val(it.m), g).val))]

\* C18 (rebased match accessors): for every pending match of a pattern
\* term - the match a callable is handed - start(g), end(g) and group(g)
\* of every group g are the offsets of the group rebased to the original
\* string and the slice of the original string between them; groups() and
\* groupdict() hold these values in group order.
C18_Rebased ==
    \A i \in 1..Len(items) :
        (items[i].kind = "re" /\ ~IsNone(items[i].m)) =>
            /\ \A g \in 0..Len(items[i].groups) : RebasedGroup(items[i], g)
            /\ groups(self, items[i], Val(items[i].m)).err = ""
            /\ \A g \in 1..Len(items[i].groups) :
                  groups(self, items[i], Val(items[i].m)).vals[g]
                      = group(self, items[i], Val(items[i].m), g).val
            /\ \A k \in 1..Len(groupdict(self, items[i], Val(items[i].m))) :
                  \E g \in 1..Len(items[i].groups) :
                      /\ items[i].groups[g].name
                            = groupdict(self, items[i], Val(items[i].m))[k].name
                      /\ group(self, items[i], Val(items[i].m), g).val
                            = groupdict(self, items[i], Val(items[i].m))[k].value

\* every group of the pending match of item it that took part has both
\* its offsets among the keys of the index map
GroupsTranslatable(it) ==
    \A g \in 1..Len(it.groups) :
        /\ group_start(self, it, Val(it.m), g).err = ""
        /\ group_end(self, it, Val(it.m), g).err = ""

\* C20 (synthetic match success): for every pending match of a pattern
\* term, the synthetic pattern built from the values of its groups matches
\* the string built from the same values: _get_fake_match never ends in
\* its RuntimeError("BUG: ...").
C20_FakeMatch ==
    \A i \in 1..Len(items) :
        (items[i].kind = "re" /\ ~IsNone(items[i].m)) =>
            get_fake_match(self, items[i], Val(items[i].m)).err # "RuntimeError"

\* a group of the pending match of item it holds a line feed
LineFeedCaptured(it) ==
    \E g \in 1..Len(it.groups) :
        /\ group(self, it, Val(it.m), g).err = ""
        /\ ~IsNone(group(self, it, Val(it.m), g).val)
        /\ \E k \in 1..Len(Val(group(self, it, Val(it.m), g).val)) :
              Val(group(self, it, Val(it.m), g).val)[k] = LF

\* what the references of a template stand for: the value group() gives
\* for the group of that number, or of that name, nothing for a group that
\* took no part
Resolved(it, template) ==
    LET Value(g) == nnstr(group(self, it, Val(it.m), g).val)
        Named(name) == CHOOSE g \in 1..Len(it.groups) : it.groups[g].name = name
        Part(el) ==
            IF ref_number(el) > 0 THEN Value(ref_number(el))
            ELSE IF ref_name(el) # "" THEN Value(Named(ref_name(el)))
            ELSE <<el>>
    IN  Concat([k \in 1..Len(template) |-> Part(template[k])])

\* C19 (template expansion): for every pending match of a pattern term
\* whose sub is a string, expand(sub) - the replacement get_replace
\* returns - is the sub with every numbered reference replaced by the
\* original-text value of the group of that number and every named
\* reference by the original-text value of the group of that name.
C19_Expand ==
    \A i \in 1..Len(items) :
        (items[i].kind = "re" /\ ~IsNone(items[i].m) /\ items[i].sub.kind = "str") =>
            /\ GroupsTranslatable(items[i])
            /\ expand(self, items[i], Val(items[i].m), items[i].sub.text)
                  = [err |-> "", text |-> Resolved(items[i], items[i].sub.text)]

\* group g of the pending match of item it took no part in the match
NonParticipating(it, g) == original_start(it, Val(it.m), g) < 0

\* C21 (non-participating groups): for every pending match of a pattern
\* term with a group that took no part, start and end of that group are
\* -1, group(), groups() and groupdict() report it as None, the groups
\* after it keep their numbers and names, and a string sub expands with
\* the references to that group replaced by nothing.
C21_NonParticipating ==
    \A i \in 1..Len(items) :
        (items[i].kind = "re" /\ ~IsNone(items[i].m)) =>
            \A g \in 1..Len(items[i].groups) :
                NonParticipating(items[i], g) =>
                    /\ group_start(self, items[i], Val(items[i].m), g).val = -1
                    /\ group_end(self, items[i], Val(items[i].m), g).val = -1
                    /\ group(self, items[i], Val(items[i].m), g)
                          = [err |-> "", val |-> None]
                    /\ groups(self, items[i], Val(items[i].m)).err = ""
                    /\ groups(self, items[i], Val(items[i].m)).vals[g] = None
                    /\ \A h \in 1..Len(items[i].groups) :
                          groups(self, items[i], Val(items[i].m)).vals[h]
                              = group(self, items[i], Val(items[i].m), h).val
                    /\ \A k \in 1..Len(groupdict(self, items[i], Val(items[i].m))) :
                          \A h \in 1..Len(items[i].groups) :
                              items[i].groups[h].name
                                  = groupdict(self, items[i], Val(items[i].m))[k].name
                              => groupdict(self, items[i], Val(items[i].m))[k].value
                                    = group(self, items[i], Val(items[i].m), h).val
                    /\ items[i].sub.kind = "str" =>
                          expand(self, items[i], Val(items[i].m), items[i].sub.text)
                              = [err |-> "",
                                 text |-> Resolved(items[i], items[i].sub.text)]

\* the sub the arguments of the call pair with search i
SubFor(i) == IF Len(args.sub) = Len(args.search) THEN args.sub[i] ELSE args.sub[1]

\* a template without a reference to a group
PlainText(text) ==
    \A k \in 1..Len(text) : ref_number(text[k]) = 0 /\ ref_name(text[k]) = ""

\* C22 (search/substitution pairing): every item holds the sub of the same
\* index when searches and subs are equally many, and the one sub when
\* exactly one is given; every emitted replacement of term i is made with
\* that sub: the sub itself for a string, the callable applied to the
\* matched original text for a callable.
C22_Pairing ==
    /\ \A i \in 1..Len(items) : items[i].sub = SubFor(i)
    /\ \A j \in 1..Len(emitted) :
          /\ (/\ SubFor(emitted[j].term).kind = "str"
              /\ \/ items[emitted[j].term].kind = "str"
                 \/ PlainText(SubFor(emitted[j].term).text))
                => emitted[j].repl = SubFor(emitted[j].term).text
          /\ SubFor(emitted[j].term).kind = "call"
                => emitted[j].repl
                      = wrap_sub(SubFor(emitted[j].term).prefix,
                                 PySlice(args.string, emitted[j].start, emitted[j].end),
                                 SubFor(emitted[j].term).suffix)

\* one sub for two searches: "ab" with "a", "b" and "X" gives "XX"
C22_Witness ==
    /\ args.string = <<"a", "b">>
    /\ args.search = <<Literal(<<"a">>), Literal(<<"b">>)>>
    /\ args.sub = <<SubStr(<<"X">>)>>
    /\ pc = "done"
    /\ fr.result = <<"X", "X">>
    /\ Len(emitted) = 2

\* the numbers of searches and subs of the call do not fit
SubCountMismatch ==
    Len(args.sub) # Len(args.search) /\ Len(args.sub) # 1

\* C23 (SubCountMismatch): a call whose number of subs is neither the
\* number of searches nor one is in its error state with a ValueError from
\* the start: it has no output text and no replacement.
C23_SubCountMismatch ==
    SubCountMismatch =>
        /\ pc = "error"
        /\ fr.state = "ERROR"
        /\ fr.err = "ValueError"
        /\ fr.result = <<>>
        /\ emitted = <<>>

\* two subs for three searches
C23_Witness ==
    /\ Len(args.search) = 3
    /\ Len(args.sub) = 2
    /\ args.string = <<"a", "b">>
    /\ pc = "error"
    /\ fr.err = "ValueError"

\* search i of the call is a literal term (a string that is not compiled)
IsLiteralTerm(i) == args.search[i].kind = "str" /\ ~args.re_search

\* the normalised form of literal term i is empty: the term is empty or,
\* in a transliterated search, made only of characters whose
\* transliteration is empty
EmptyNormalized(i) ==
    IF args.unidecoded_search
    THEN \A k \in 1..Len(args.search[i].alts[1]) :
            unidecode(<<args.search[i].alts[1][k]>>) = <<>>
    ELSE args.search[i].alts[1] = <<>>

\* C24 (EmptyPattern): a call with a literal term whose normalised form is
\* empty is in its error state from the start, with a ValueError when that
\* term is the only argument at fault, and has no output; every literal
\* item of an accepted call has a normalised search of length >= 1.
C24_EmptyPattern ==
    /\ \A i \in 1..Len(args.search) :
          (IsLiteralTerm(i) /\ EmptyNormalized(i)) =>
              /\ pc = "error"
              /\ fr.result = <<>>
              /\ emitted = <<>>
              /\ (Len(args.search) = 1 /\ Len(args.sub) = 1) => fr.err = "ValueError"
    /\ \A i \in 1..Len(items) :
          items[i].kind = "str" => Len(items[i].search[1]) >= 1

\* a term of two characters, one of empty transliteration and one without
\* table entry
C24_Witness ==
    /\ args.search = <<Literal(<<"E", "N">>)>>
    /\ args.unidecoded_search
    /\ ~args.re_search
    /\ args.sub = <<SubStr(<<"X">>)>>
    /\ args.string = <<"a">>
    /\ pc = "error"
    /\ fr.err = "ValueError"

\* search i of the call is a pattern one alternative of which can match
\* without consuming a character
CanMatchEmpty(i) ==
    /\ IsPatternTerm(i)
    /\ \E k \in 1..Len(args.search[i].alts) : alt_width(args.search[i].alts[k]) = 0

\* C25 (EmptyPatternMatch): a call with a pattern term that can match the
\* empty string is in its error state from the start, and no pending or
\* replaced match of a pattern term of an accepted call is of length zero
\* (end > start in the projection).
C25_NoEmptyMatch ==
    /\ \A i \in 1..Len(args.search) : CanMatchEmpty(i) => pc = "error"
    /\ \A i \in 1..Len(items) :
          (items[i].kind = "re" /\ ~IsNone(items[i].m)) =>
              Val(items[i].m).end > Val(items[i].m).start
    /\ \A j \in 1..Len(emitted) :
          items[emitted[j].term].kind = "re" => emitted[j].uend > emitted[j].ustart

\* count is set and is not a positive integer
InvalidCount ==
    ~IsNone(args.count) /\ ~(args.count_is_int /\ Val(args.count) > 0)

\* the arguments passed the checks of __init__: the items were built
IsConstructed == items # <<>>

\* C26 (InvalidCount): a call with a count that is set and not a positive
\* integer never enters the loop of run(), emits no replacement and returns
\* no text; once its items are primed it ends with a ValueError.  A count
\* that is unset or a positive integer never makes run() raise that error.
C26_InvalidCount ==
    /\ InvalidCount =>
          /\ pc \in {"prime", "next", "error"}
          /\ pc = "next" => fr.ret = "prime"
          /\ (pc = "error" /\ IsConstructed) => fr.err = "ValueError"
          /\ emitted = <<>>
          /\ fr.result = <<>>
    /\ (IsConstructed /\ pc = "error" /\ fr.err = "ValueError") => InvalidCount

\* count = 0 with a term that has a match: the items are primed, then
\* run() raises
C26_Witness ==
    /\ args.count = Some(0)
    /\ args.string = <<"a">>
    /\ args.search = <<Literal(<<"a">>)>>
    /\ fr.kept = <<1>>
    /\ pc = "error"
    /\ fr.err = "ValueError"
    /\ emitted = <<>>

\* an argument of the call fails a check of __init__: no search, numbers
\* of searches and subs that do not fit, a search or a sub of a wrong
\* type, a literal term of empty normalised form, a pattern that matches
\* the empty text
InvalidArguments ==
    \/ Len(args.search) = 0
    \/ SubCountMismatch
    \/ \E i \in 1..Len(args.search) :
          \/ args.search[i].kind = "other"
          \/ IsLiteralTerm(i) /\ EmptyNormalized(i)
          \/ /\ args.search[i].kind # "other"
             /\ IsPatternTerm(i)
             /\ \E k \in 1..Len(SourceOf(i)) : alt_body(SourceOf(i)[k]) = <<>>
          \/ SubFor(i).kind = "other"

\* C27 (validation precedes output): a call with an argument that fails a
\* check of __init__ is in its error state from the start, before any item
\* is built or searched; a call with an invalid count never enters the
\* loop of run(); in both cases no callable has been called, no
\* replacement emitted and no output text exists, and the call never
\* returns a text.
C27_ValidationFirst ==
    /\ InvalidArguments =>
          /\ pc = "error"
          /\ fr.err \in {"ValueError", "TypeError"}
          /\ items = <<>>
    /\ (InvalidArguments \/ InvalidCount) =>
          /\ pc \notin {"scan", "done"}
          /\ emitted = <<>>
          /\ fr.result = <<>>
    /\ (pc = "error" /\ fr.err \in {"ValueError", "TypeError"}) =>
          /\ InvalidArguments \/ InvalidCount
          /\ emitted = <<>>
          /\ fr.result = <<>>

\* a sub that is neither a string nor a callable
C27_Witness ==
    /\ args.string = <<"a">>
    /\ args.search = <<Literal(<<"a">>)>>
    /\ args.sub = <<SubOther>>
    /\ IsNone(args.count)
    /\ pc = "error"
    /\ fr.err = "TypeError"

\* C28 (emitted replacements are real matches): every emitted replacement
\* covers a span of the original string whose projection offsets are the
\* ones of an occurrence of the normalised search of its term (a literal
\* term) or of a match of its pattern (a pattern term) in the text the
\* term searches.
C28_RealMatches ==
    \A j \in 1..Len(emitted) :
        /\ Occurs(items[emitted[j].term], emitted[j].ustart, emitted[j].uend)
        /\ SpanAt(emitted[j].start, emitted[j].end, emitted[j].ustart, emitted[j].uend)

\* the loop of run() is at its top with a candidate that starts below
\* last_pos
StaleSelected ==
    /\ pc = "scan"
    /\ search_items # <<>>
    /\ ChosenSpan(State)[1] < fr.last_pos

\* the pass emits the replacement of the candidate at last_pos and sets
\* last_pos to the end of the candidate
ClampedEmission ==
    /\ Len(emitted') = Len(emitted) + 1
    /\ Last(emitted').term = Chosen(State)
    /\ Last(emitted').at = fr.last_pos
    /\ Last(emitted').end = ChosenSpan(State)[2]
    /\ fr'.last_pos = ChosenSpan(State)[2]
    /\ SubSeq(fr'.result, 1, Len(fr.result) + Len(Last(emitted').repl))
          = fr.result \o Last(emitted').repl

\* C29 as stated (stale candidate handling with overlaps disallowed): a
\* selected candidate whose start is below last_pos is emitted at last_pos
\* and last_pos moves to its end.
C29_StaleEmitted ==
    [][(StaleSelected /\ ~self.allow_overlaps) => ClampedEmission]_vars

\* C29 (stale candidate handling): with overlaps disallowed a selected
\* candidate whose start is below last_pos emits nothing - output, last_pos
\* and the active list are unchanged and its term searches again; with
\* overlaps allowed it is emitted at last_pos and last_pos is set to its end
\* (unless get_replace raises).
C29_StaleCandidate ==
    [][StaleSelected =>
          IF self.allow_overlaps
          THEN ClampedEmission \/ (pc' = "error" /\ emitted' = emitted)
          ELSE /\ emitted' = emitted
               /\ fr'.result = fr.result
               /\ fr'.last_pos = fr.last_pos
               /\ search_items' = search_items
               /\ pc' = "next"
               /\ fr'.cur = Chosen(State)]_vars

\* "aaa" with "aa", overlaps disallowed: after the replacement of [0,2) the
\* occurrence at 1 was selected and passed over, its term searches again
C29_Witness ==
    /\ args.string = <<"a", "a", "a">>
    /\ args.search = <<Literal(<<"a", "a">>)>>
    /\ ~args.allow_overlaps
    /\ pc = "next"
    /\ fr.ret = "run"
    /\ Len(emitted) = 1
    /\ fr.last_pos = 2
    /\ items[1].pos = 1
    /\ fr.lpos = 1

\* the cursor positions of the projection from which a search inside the
\* window can start at or after offset o of the original string
ResumePoints(o) ==
    {k \in IF self.unidecoded_search THEN {self.keys[j] : j \in 1..Len(self.keys)}
           ELSE 0..(Len(self.string) - 1) :
        U2I(self, k) >= o /\ U2I(self, k) < self.endpos}

\* a pass of the loop of run() with allow_overlaps that emits a replacement
\* and goes on
OverlapEmission ==
    /\ pc = "scan"
    /\ self.allow_overlaps
    /\ Len(emitted') = Len(emitted) + 1
    /\ pc' = "next"

\* the items other than the chosen one and the active list are as before
OthersUntouched ==
    /\ search_items' = search_items
    /\ \A i \in 1..Len(items) : i # Last(emitted').term => items'[i] = items[i]

\* C30 (overlap-mode advance): in a pass with allow_overlaps that emits a
\* match with original start s, the chosen term resumes its search at the
\* first position at or after s + 1, and the other items and the active
\* list are unchanged.
C30_OverlapAdvance ==
    [][OverlapEmission =>
          /\ ResumePoints(Last(emitted').start + 1) # {} =>
                fr'.lpos = MinOf(ResumePoints(Last(emitted').start + 1))
          /\ OthersUntouched]_vars

\* a pass of the loop of run() without allow_overlaps that emits a
\* replacement, runs _skip_overlaps and goes on
SkipEmission ==
    /\ pc = "scan"
    /\ ~self.allow_overlaps
    /\ Len(emitted') = Len(emitted) + 1
    /\ pc' = "next"

\* the cursor positions at or after the cursor of item i from which a
\* search inside the window can start at or after offset o of the original
\* string
RemainingPoints(i, o) == {k \in ResumePoints(o) : k >= items[i].pos}

\* every item of the active list has its cursor at or after offset o
CursorsClear(its, active, o) ==
    \A k \in 1..Len(active) :
        /\ HasKey(self, its[active[k]].pos)
        /\ U2I(self, its[active[k]].pos) >= o

\* the items of the active list that the pass removed had no position left
\* at or after offset o
DroppedSpent(o) ==
    \A k \in 1..Len(search_items) :
        (\A j \in 1..Len(search_items') : search_items'[j] # search_items[k])
            => RemainingPoints(search_items[k], o) = {}

\* C31 (repositioning after an emit, overlaps disallowed): after each
\* replacement every term still in the active list has its cursor at a
\* position whose original offset is >= the new last_pos, and a term is
\* dropped by the step only if no position with original offset in
\* [last_pos, endpos) remains for it.
C31_Reposition ==
    [][SkipEmission =>
          /\ CursorsClear(items', search_items', fr'.last_pos)
          /\ DroppedSpent(fr'.last_pos)]_vars

\* the call of next() made by run() on the chosen term is about to return a
\* negative value: the term is exhausted
Exhausted ==
    /\ pc = "next"
    /\ fr.ret = "run"
    /\ NextIter(State).done
    /\ NextIter(State).ret < 0

\* the active list without term id
Without(active, id) ==
    KeepPositions(active, {k \in 1..Len(active) : active[k] = id})

\* C32 (dropping an exhausted term): when the advance of the chosen term
\* reports exhaustion, exactly that term leaves the active list: no other
\* term is deleted and the deletion does not fail with an index out of
\* range, also when _skip_overlaps removed terms in the same pass.
C32_DropExhausted ==
    [][Exhausted =>
          /\ pc' = "scan"
          /\ search_items' = Without(search_items, fr.cur)]_vars

\* C33 (monotone emission point): last_pos never decreases during a run,
\* with overlaps allowed or not, so the text appended between replacements
\* and the final string[last_pos:] never repeat original characters of a
\* span already replaced.
C33_MonotoneLastPos ==
    [][fr'.last_pos >= fr.last_pos]_vars

\* the end of the k-th emitted span, 0 before the first
SpanEnd(k) == IF k = 0 THEN 0 ELSE emitted[k].end

RECURSIVE Rebuilt(_)
\* s[0:a1] + r1 + s[b1:a2] + r2 + ... + rk for the first k emitted spans
Rebuilt(k) ==
    IF k = 0 THEN <<>>
    ELSE Rebuilt(k - 1)
         \o PySlice(self.string, SpanEnd(k - 1), emitted[k].start)
         \o emitted[k].repl

\* the emitted spans lie in the string one after the other
SpansOrdered ==
    \A k \in 1..Len(emitted) :
        /\ SpanEnd(k - 1) <= emitted[k].start
        /\ emitted[k].start <= emitted[k].end

\* C34 (output reconstruction, overlaps disallowed): the emitted spans
\* [a1,b1), ..., [ak,bk) are in order with b(i) <= a(i+1), the output
\* written so far is s[0:a1] + r1 + s[b1:a2] + ... + rk, and the returned
\* text is that followed by s[bk:].
C34_Reconstruction ==
    ~self.allow_overlaps =>
        /\ SpansOrdered
        /\ pc \in {"scan", "next"} => fr.result = Rebuilt(Len(emitted))
        /\ pc = "done" =>
              fr.result = Rebuilt(Len(emitted))
                          \o PyTail(self.string, SpanEnd(Len(emitted)))

\* 'aba' with 'a' -> 'X' returned 'XbX': two spans with the untouched 'b'
\* between them
C34_Witness ==
    /\ ~self.allow_overlaps
    /\ pc = "done"
    /\ self.string = <<"a", "b", "a">>
    /\ Len(emitted) = 2
    /\ emitted[1].end < emitted[2].start
    /\ fr.result = <<"X", "b", "X">>

\* the text an item searches: its term and the string it is looked up in
SearchedText(obj, its) ==
    [i \in 1..Len(its) |->
        [search |-> its[i].search, kind |-> its[i].kind, ic |-> its[i].ic,
         case_sensitive |-> its[i].case_sensitive,
         string |-> obj.string, uni_str |-> obj.uni_str,
         uni_str_lower |-> obj.uni_str_lower, u2i |-> obj.u2i]]

\* C35 (replacement text is never rescanned): the string the call starts
\* with is the original input, and no step of the run changes the string,
\* its projection, the index map or the term that an item searches;
\* substituted text is written to the output (fr.result) only.
C35_NoRescan ==
    /\ self.string = args.string
    /\ [][/\ self' = self
          /\ SearchedText(self', items') = SearchedText(self, items)]_vars

\* unidecode_wrap of 'aa' with 'a' returned '<a><a>': the replacement
\* text contains the term and was not replaced again
C35_Witness ==
    /\ pc = "done"
    /\ args.string = <<"a", "a">>
    /\ args.search = <<Literal(<<"a">>)>>
    /\ args.sub = <<SubWrap>>
    /\ Len(emitted) = 2
    /\ fr.result = <<"<", "a", ">", "<", "a", ">">>

\* none of the accessors of the pending match of item it ends in the
\* KeyError of a failed lookup in the index map
NoLookupError(it) ==
    /\ \A g \in 0..Len(it.groups) :
          /\ group_start(self, it, Val(it.m), g).err # "KeyError"
          /\ group_end(self, it, Val(it.m), g).err # "KeyError"
          /\ group(self, it, Val(it.m), g).err # "KeyError"
    /\ groups(self, it, Val(it.m)).err # "KeyError"
    /\ it.sub.kind = "str" =>
          expand(self, it, Val(it.m), it.sub.text).err # "KeyError"

\* C36 (group boundaries of accepted matches): for every match of a
\* pattern term that the scan accepted, start and end of every group that
\* took part are keys of the index map, so start(g), end(g), group(g),
\* groups() and expand() - and with it a string substitution of the term -
\* never fail with a lookup error, and no call ends with a KeyError.
C36_GroupBoundaries ==
    /\ \A i \in 1..Len(items) :
          (items[i].kind = "re" /\ ~IsNone(items[i].m)) =>
              /\ GroupsTranslatable(items[i])
              /\ NoLookupError(items[i])
    /\ pc = "error" => fr.err # "KeyError"

\* the index map of an instance built in transliterated mode is the one
\* the per-character expansions of the input determine
IndexMapOf(chunks, full) ==
    /\ DOMAIN self.u2i = {PrefixLen(chunks, i) : i \in 0..Len(chunks)}
    /\ 0 \in DOMAIN self.u2i
    /\ Len(full) \in DOMAIN self.u2i
    /\ self.u2i[Len(full)] = Len(args.string)
    /\ \A k \in DOMAIN self.u2i : \A l \in DOMAIN self.u2i :
          k < l => self.u2i[k] < self.u2i[l]
    /\ \A k \in DOMAIN self.u2i :
          /\ self.u2i[k] \in 0..Len(chunks)
          /\ SubSeq(full, 1, k) = Concat(SubSeq(chunks, 1, self.u2i[k]))
    /\ self.keys = SortedSeq(DOMAIN self.u2i)
    /\ ~IsNone(self.uni_str) => Val(self.uni_str) = full
    /\ ~IsNone(self.uni_str_lower) => Val(self.uni_str_lower) = lower(full)

\* C37 (index map invariant): in transliterated mode the keys of the index
\* map are exactly the prefix lengths of the per-character expansions, 0
\* and the length of the projection included; the map is strictly
\* increasing in key and value, maps the length of the projection to the
\* length of the original, and for every entry k -> i the first k
\* characters of the projection are the expansions of the first i original
\* characters; no step of the run changes the map or the projection.
C37_IndexMap ==
    /\ []((self.unidecoded_search /\ IsConstructed) => IndexMapOf(Chunks, Concat(Chunks)))
    /\ [][/\ self'.u2i = self.u2i
          /\ self'.keys = self.keys
          /\ self'.uni_str = self.uni_str
          /\ self'.uni_str_lower = self.uni_str_lower]_vars

\* 'WaE' after a search of 'aE' found it: the map has the keys 0, 2, 3, the
\* last one reached by two indexes and mapped to the length of the string
C37_Witness ==
    /\ self.unidecoded_search
    /\ args.string = <<"W", "a", "E">>
    /\ DOMAIN self.u2i = {0, 2, 3}
    /\ self.u2i[2] = 1
    /\ self.u2i[3] = 3
    /\ pc = "done"
    /\ Len(emitted) = 1

\* the projection offsets at which term i has a valid occurrence: the
\* occurrence starts and ends on a key of the index map and its original
\* span lies in the window
ValidOccurrences(i) ==
    {us \in 0..(2 * MaxLen) :
        \E ue \in us..(2 * MaxLen) :
            /\ Occurs(items[i], us, ue)
            /\ HasKey(self, us) /\ HasKey(self, ue)
            /\ self.pos <= U2I(self, us)
            /\ U2I(self, ue) <= self.endpos}

\* run() is about to make the first pass of its loop: priming is over
PrimingDone == pc = "scan" /\ fr.si_idx = 0

\* C38 (priming): when priming is over the active list holds, in
\* declaration order, exactly the terms that have a valid (aligned,
\* in-window) occurrence, each with a cursor >= 0 and its first valid
\* occurrence as pending match.
C38_Priming ==
    PrimingDone =>
        /\ search_items = SortedSeq({i \in 1..Len(items) : ValidOccurrences(i) # {}})
        /\ \A k \in 1..Len(search_items) :
              /\ items[search_items[k]].pos >= 0
              /\ uni_span(items[search_items[k]])[1] \in ValidOccurrences(search_items[k])
              /\ uni_span(items[search_items[k]])[1]
                    = MinOf(ValidOccurrences(search_items[k]))
              /\ Occurs(items[search_items[k]], uni_span(items[search_items[k]])[1],
                        uni_span(items[search_items[k]])[2])

RECURSIVE GreedyFrom(_, _, _)
\* the leftmost-first greedy scan of the valid occurrences of term i from
\* projection offset o on, at most n of them: the starts of the selected
\* occurrences
GreedyFrom(i, o, n) ==
    LET Pick(c) ==
            IF n = 0 \/ c = {} THEN <<>>
            ELSE <<MinOf(c)>>
                 \o GreedyFrom(i, MinOf(c) + Len(items[i].search[1]), n - 1)
    IN  Pick({us \in ValidOccurrences(i) : us >= o})

\* a transliterated call with a single literal term, overlaps disallowed
SingleLiteralScan ==
    /\ self.unidecoded_search
    /\ ~self.allow_overlaps
    /\ Len(items) = 1
    /\ items[1].kind = "str"

\* the spans replaced so far are the first ones of the greedy scan g
GreedyPrefix(g) ==
    /\ Len(emitted) <= Len(g)
    /\ \A k \in 1..Len(emitted) :
          /\ emitted[k].ustart = g[k]
          /\ emitted[k].uend = g[k] + Len(items[1].search[1])
          /\ emitted[k].start = U2I(self, emitted[k].ustart)
          /\ emitted[k].end = U2I(self, emitted[k].uend)

\* C39 (literal scan completeness): in transliterated mode with a single
\* literal term and overlaps disallowed, the replaced spans are exactly
\* the ones a leftmost-first greedy scan selects among the aligned,
\* in-window occurrences of the normalised term in the projection (the
\* first count of them when count is given): an unaligned or out-of-window
\* hit never ends the scan while a later valid occurrence exists.
C39_GreedyScan ==
    SingleLiteralScan =>
        \E g \in {GreedyFrom(1, 0, IF IsNone(self.count) THEN 2 * MaxLen
                                   ELSE Val(self.count))} :
            /\ GreedyPrefix(g)
            /\ pc = "done" => Len(emitted) = Len(g)

\* item it has no match: its cursor is -1 (before its first advance, after
\* the reset of an exhausted search)
Unmatched(it) == it.pos = -1

\* C40 (span of an unmatched term): get_start_end() of a literal or pattern
\* term whose cursor is -1 is (-1, -1), in both alignment modes; for an
\* active term with a pending match it is the original-coordinate span of
\* that match.
C40_UnmatchedSpan ==
    /\ \A i \in 1..Len(items) :
          Unmatched(items[i]) => get_start_end(self, items[i]) = <<-1, -1>>
    /\ pc = "scan" =>
          \A k \in 1..Len(search_items) :
              (/\ ~Unmatched(items[search_items[k]])
               /\ HasKey(self, uni_span(items[search_items[k]])[1])
               /\ HasKey(self, uni_span(items[search_items[k]])[2]))
              => get_start_end(self, items[search_items[k]])
                    = <<U2I(self, uni_span(items[search_items[k]])[1]),
                        U2I(self, uni_span(items[search_items[k]])[2])>>

====
